---- MODULE Spec2Model ----
(***************************************************************************)
(* Model of the club dashboard: the colour sanitizer (services/api.ts),    *)
(* the club-settings fetch (api.getClubSettings), the achievement progress *)
(* computation (AchievementProgress in App.tsx), the theme projector       *)
(* (BrandingStyles), and the App session: login, logout, the modals, the   *)
(* admin panel's draft and authorize, and the profile and member saves.    *)
(*                                                                         *)
(* JavaScript strings are modelled as sequences of one-character strings   *)
(* so that trim(), toLowerCase() and includes() are computed, not assumed. *)
(* A JavaScript value that may be undefined or null is a record            *)
(* [t |-> type tag, s |-> payload].                                        *)
(***************************************************************************)
EXTENDS Integers, Sequences, FiniteSets, TLC

VARIABLES
    color,        \* argument handed to sanitizeColor
    sanitized,    \* sanitizeColor(color)
    resanitized,  \* sanitizeColor(sanitizeColor(color))
    response,     \* what the club_settings select resolves to: [error, data]
    fetched,      \* the ClubSettings record getClubSettings resolves to
    user,         \* App's user state; the user prop of AchievementProgress
    settings,     \* App's settings state; the settings prop of the components
    view,         \* what AchievementProgress returns
    styles,       \* what BrandingStyles returns for the current settings
    fetchCalls,   \* number of getClubSettings calls issued so far
    fetchPending, \* a getClubSettings call has not resolved yet
    clubSettingsRow,  \* the stored club_settings row with id 1: [found, data]
    users,        \* the stored users table
    ridesTable,   \* the stored rides table
    tempUser,     \* App state: the user a login returned
    showEntrySequence,    \* App state
    loading,      \* App state: a login is being processed
    error,        \* App state: the message under the login form
    loginRequest, \* the api.login call in flight, or Null
    showSettingsModal,    \* App state
    showCreateRideModal,  \* App state
    refreshKey,   \* App state: key of the mounted dashboard
    localSettings,    \* AdminPanelContent state: the draft
    showConfirm,  \* AdminPanelContent state
    authorizeRequests,    \* the updateClubSettings calls in flight
    saving,       \* CreateRideModal state
    showSuccess,  \* CreateRideModal state
    createRequests,   \* the createRide calls in flight
    createTimers, \* pending 1500 ms timeouts of successful creates
    selectedRide, \* dashboard state: the ride whose briefing is open
    rosterRequests,   \* the ride ids of RideDetailsModal's fetchData calls in flight
    participants, \* RideDetailsModal state
    pendingAttendance,    \* RideDetailsModal state
    showRiderControlModal,    \* App state
    formData,     \* RiderControlModal state: the profile being edited
    savingProfile,    \* RiderControlModal state (saving)
    members,      \* MemberManagement state: the fetched users
    membersPending,   \* MemberManagement's getUsers call has not resolved
    editingMember,    \* MemberManagement state
    updateRequests,   \* the updateUser calls in flight
    selectedMember,   \* the member Edit Credentials was pressed for
    rideIds,      \* the number of ids the rides table has handed out
    rides,        \* MarshalDashboard state: the fetched rides
    ridesPending, \* a getRides call of the dashboard has not resolved
    deletingRide, \* MarshalDashboard state
    deleteRequests    \* the deleteRide calls in flight

vars == <<color, sanitized, resanitized, response, fetched,
          user, settings, view, styles, fetchCalls, fetchPending,
          clubSettingsRow, users, ridesTable, tempUser, showEntrySequence,
          loading, error, loginRequest, showSettingsModal,
          showCreateRideModal, refreshKey, localSettings, showConfirm,
          authorizeRequests, saving, showSuccess, createRequests,
          createTimers, selectedRide, rosterRequests, participants,
          pendingAttendance, showRiderControlModal, formData, savingProfile,
          members, membersPending, editingMember, updateRequests,
          selectedMember, rideIds, rides, ridesPending, deletingRide,
          deleteRequests>>

sanitizeVars == <<color, sanitized, resanitized>>

settingsVars == <<response, fetched>>

progressVars == <<user, settings, view>>

\* the state added by the theme projector and the App session
fetchVars == <<fetchCalls, fetchPending>>

storeVars == <<clubSettingsRow, users, ridesTable, rideIds>>

loginVars == <<tempUser, showEntrySequence, loading, error, loginRequest>>

panelVars == <<showSettingsModal, localSettings, showConfirm>>

createVars == <<showCreateRideModal, saving, showSuccess, createRequests,
                createTimers>>

rosterVars == <<selectedRide, rosterRequests, participants, pendingAttendance>>

profileVars == <<showRiderControlModal, formData, savingProfile>>

memberVars == <<members, membersPending, editingMember, selectedMember>>

dashboardVars == <<rides, ridesPending, deletingRide, deleteRequests>>

peopleVars == <<profileVars, memberVars, updateRequests>>

appVars == <<styles, fetchVars, storeVars, loginVars, panelVars, createVars,
             rosterVars, refreshKey, authorizeRequests, peopleVars,
             dashboardVars>>

----------------------------------------------------------------------------
(* JavaScript values *)

Undefined == [t |-> "undefined", s |-> <<>>]

Null == [t |-> "null", s |-> <<>>]

Str(chars) == [t |-> "string", s |-> chars]

Num(n) == [t |-> "number", s |-> n]

Arr(items) == [t |-> "array", s |-> items]

\* marks a result that has not been computed yet
NotRun == [t |-> "notrun", s |-> <<>>]

\* JavaScript truthiness: '', 0, null and undefined are falsy, arrays truthy
Truthy(v) ==
    \/ v.t = "string" /\ Len(v.s) > 0
    \/ v.t = "number" /\ v.s # 0
    \/ v.t = "array"

\* a || b
OrElse(a, b) == IF Truthy(a) THEN a ELSE b

----------------------------------------------------------------------------
(* String.prototype functions *)

UpperLetters == <<"A","B","C","D","E","F","G","H","I","J","K","L","M",
                  "N","O","P","Q","R","S","T","U","V","W","X","Y","Z">>

LowerLetters == <<"a","b","c","d","e","f","g","h","i","j","k","l","m",
                  "n","o","p","q","r","s","t","u","v","w","x","y","z">>

WhiteSpace == {" ", "\t", "\n"}

LowerChar(ch) ==
    IF \E i \in 1..26 : UpperLetters[i] = ch
    THEN LowerLetters[CHOOSE i \in 1..26 : UpperLetters[i] = ch]
    ELSE ch

UpperChar(ch) ==
    IF \E i \in 1..26 : LowerLetters[i] = ch
    THEN UpperLetters[CHOOSE i \in 1..26 : LowerLetters[i] = ch]
    ELSE ch

toLowerCase(s) == [i \in 1..Len(s) |-> LowerChar(s[i])]

toUpperCase(s) == [i \in 1..Len(s) |-> UpperChar(s[i])]

RECURSIVE trimStart(_)
trimStart(s) ==
    IF Len(s) > 0 /\ s[1] \in WhiteSpace THEN trimStart(Tail(s)) ELSE s

RECURSIVE trimEnd(_)
trimEnd(s) ==
    IF Len(s) > 0 /\ s[Len(s)] \in WhiteSpace
    THEN trimEnd(SubSeq(s, 1, Len(s) - 1))
    ELSE s

trim(s) == trimEnd(trimStart(s))

includes(s, needle) ==
    \E i \in 1..(Len(s) - Len(needle) + 1) :
        SubSeq(s, i, i + Len(needle) - 1) = needle

----------------------------------------------------------------------------
(* Colour constants *)

BRAND_GREEN == <<"#","a","4","e","6","3","6">>

LEGACY_RED_HEX == <<"#","e","1","1","d","4","7">>

LegacyRgb == <<"r","g","b","(","2","2","5",","," ","2","9",","," ","7","1",")">>

LegacyTriple == <<"2","2","5",","," ","2","9",","," ","7","1">>

PureRedHex == <<"#","f","f","0","0","0","0">>

RedName == <<"r","e","d">>

\* the condition of the if statement, evaluated on c = color.trim().toLowerCase()
IsLegacyRed(c) ==
    \/ c = toLowerCase(LEGACY_RED_HEX)
    \/ c = LEGACY_RED_HEX
    \/ c = LegacyRgb
    \/ includes(c, LegacyTriple)
    \/ c = PureRedHex
    \/ c = RedName

\* plausible slip: the comparison is made on the untrimmed text and the
\* trimmed text is what is handed back
sanitizeColorTrimLate(v) ==
    IF ~Truthy(v) THEN Str(BRAND_GREEN)
    ELSE IF IsLegacyRed(toLowerCase(v.s)) THEN Str(BRAND_GREEN)
    ELSE Str(trim(v.s))

\* plausible slip: the comparison is made without lower-casing
sanitizeColorCaseSensitive(v) ==
    IF ~Truthy(v) THEN Str(BRAND_GREEN)
    ELSE IF IsLegacyRed(trim(v.s)) THEN Str(BRAND_GREEN)
    ELSE v

\* plausible slip: the normalised text c is handed back instead of color
sanitizeColorReturnsNormalised(v) ==
    IF ~Truthy(v) THEN Str(BRAND_GREEN)
    ELSE IF IsLegacyRed(toLowerCase(trim(v.s))) THEN Str(BRAND_GREEN)
    ELSE Str(toLowerCase(trim(v.s)))

sanitizeColor(v) ==
    IF ~Truthy(v) THEN Str(BRAND_GREEN)
    ELSE IF IsLegacyRed(toLowerCase(trim(v.s))) THEN Str(BRAND_GREEN)
    ELSE v

----------------------------------------------------------------------------
(* The club_settings row and api.getClubSettings *)

SanitizedFields == {"primaryColor", "buttonBg", "statColor"}

DefaultedColorFields == {"dashboardBg", "cardBg", "headerBg"}

SpreadColorFields == {"headerText", "cardBorder", "buttonText"}

ColorFields == SanitizedFields \cup DefaultedColorFields \cup SpreadColorFields

FontFields == {"globalFont", "headingFont", "navFont", "statFont", "buttonFont",
               "inputFont", "achievementFont", "cardHeaderFont",
               "sectionHeaderFont"}

TextFields == {"brandName", "brandSubName", "logoUrl", "upiId", "gpayQrUrl"}

NumberFields == {"annualFee", "lifetimeFee"}

SettingsFields ==
    ColorFields \cup FontFields \cup TextFields \cup NumberFields
        \cup {"achievements"}

Montserrat == <<"M","o","n","t","s","e","r","r","a","t">>

BebasNeue == <<"B","e","b","a","s"," ","N","e","u","e">>

Black == <<"#","0","0","0","0","0","0">>

White == <<"#","f","f","f","f","f","f">>

CardBgDefault == <<"#","0","a","0","a","0","a">>

CardBorderDefault == <<"#","2","6","2","6","2","6">>

DefaultAchievements == <<
    [threshold |-> 1000, label |-> "Iron Butt", category |-> "Kms"],
    [threshold |-> 5, label |-> "First Lead", category |-> "Leads"],
    [threshold |-> 10, label |-> "Road Master", category |-> "Leads"],
    [threshold |-> 10, label |-> "Guardian", category |-> "Sweeps"],
    [threshold |-> 5, label |-> "Tactician", category |-> "RPs"],
    [threshold |-> 25, label |-> "Veteran", category |-> "Rides"] >>

defaults == [f \in SettingsFields |->
    CASE f = "brandName" -> Str(<<"B","I","K","E","R","S">>)
      [] f = "brandSubName" -> Str(<<"C","R","E","E","D">>)
      [] f = "primaryColor" -> Str(BRAND_GREEN)
      [] f = "logoUrl" -> Str(<<>>)
      [] f = "achievements" -> Arr(DefaultAchievements)
      [] f = "upiId" -> Str(<<>>)
      [] f = "gpayQrUrl" -> Str(<<>>)
      [] f = "annualFee" -> Num(0)
      [] f = "lifetimeFee" -> Num(0)
      [] f = "dashboardBg" -> Str(Black)
      [] f = "headerBg" -> Str(Black)
      [] f = "headerText" -> Str(White)
      [] f = "cardBg" -> Str(CardBgDefault)
      [] f = "cardBorder" -> Str(CardBorderDefault)
      [] f = "globalFont" -> Str(Montserrat)
      [] f = "inputFont" -> Str(Montserrat)
      [] f = "buttonBg" -> Str(BRAND_GREEN)
      [] f = "buttonText" -> Str(Black)
      [] f = "statColor" -> Str(BRAND_GREEN)
      [] OTHER -> Str(BebasNeue)]

\* data of a select that found no row (maybeSingle resolves data to null)
NoRow == [f \in SettingsFields |-> Null]

\* plausible slip: statColor is left out of the sanitized fields
MergedSettingsStatColorRaw(data) == [f \in SettingsFields |->
    CASE f \in {"primaryColor", "buttonBg"} -> sanitizeColor(data[f])
      [] f = "dashboardBg" -> OrElse(data[f], Str(Black))
      [] f = "cardBg" -> OrElse(data[f], Str(CardBgDefault))
      [] f = "headerBg" -> OrElse(data[f], Str(Black))
      [] f = "achievements" -> OrElse(data[f], defaults[f])
      [] f \in FontFields -> OrElse(data[f], defaults[f])
      [] OTHER -> data[f]]

\* plausible slip: the sanitizer is applied to every colour field
MergedSettingsSanitizeAll(data) == [f \in SettingsFields |->
    CASE f \in ColorFields -> sanitizeColor(data[f])
      [] f = "achievements" -> OrElse(data[f], defaults[f])
      [] f \in FontFields -> OrElse(data[f], defaults[f])
      [] OTHER -> data[f]]

\* the object built by the return statement; a key missing from data reads
\* as undefined both before and after the spread
MergedSettings(data) == [f \in SettingsFields |->
    CASE f \in SanitizedFields -> sanitizeColor(data[f])
      [] f = "dashboardBg" -> OrElse(data[f], Str(Black))
      [] f = "cardBg" -> OrElse(data[f], Str(CardBgDefault))
      [] f = "headerBg" -> OrElse(data[f], Str(Black))
      [] f = "achievements" -> OrElse(data[f], defaults[f])
      [] f \in FontFields -> OrElse(data[f], defaults[f])
      [] OTHER -> data[f]]

\* plausible slip: a failed read is passed on as no settings at all
getClubSettingsNullOnError(resp) ==
    IF resp.error THEN Null
    ELSE IF ~resp.found THEN defaults ELSE MergedSettings(resp.data)

getClubSettings(resp) ==
    IF resp.error \/ ~resp.found THEN defaults ELSE MergedSettings(resp.data)

----------------------------------------------------------------------------
(* Stored rows the fetch is run against *)

MaxEdits == 2

Roboto == <<"R","o","b","o","t","o">>

\* a row as an authorize of the default record leaves it
BaseRow == defaults

ColorPalette == {
    Undefined, Null, Str(<<>>),
    Str(toUpperCase(LEGACY_RED_HEX)),
    Str(<<" ">> \o RedName),
    Str(<<"#","1","2","3","4","5","6">>) }

FontPalette == { Undefined, Str(<<>>), Str(Roboto) }

AchievementsPalette == {
    Undefined, Arr(<<>>),
    Arr(<<[threshold |-> 0, label |-> "New Honor", category |-> "Kms"]>>) }

FieldEdits ==
    (ColorFields \X ColorPalette) \cup (FontFields \X FontPalette)
        \cup ({"achievements"} \X AchievementsPalette)

RECURSIVE RowsWithEdits(_)
RowsWithEdits(n) ==
    IF n = 0 THEN {BaseRow}
    ELSE LET R == RowsWithEdits(n - 1) IN
         R \cup { [r EXCEPT ![e[1]] = e[2]] : r \in R, e \in FieldEdits }

Responses ==
    { [error |-> FALSE, found |-> TRUE, data |-> r] : r \in RowsWithEdits(MaxEdits) }
        \cup { [error |-> FALSE, found |-> FALSE, data |-> NoRow],
               [error |-> TRUE, found |-> FALSE, data |-> NoRow] }

NoResponse == [error |-> FALSE, found |-> FALSE, data |-> <<>>]

NotFetched == <<>>

----------------------------------------------------------------------------
(* JavaScript numbers: a finite value is the exact fraction n/d with d > 0 *)
(* in lowest terms; NaN and the two infinities are separate kinds.         *)

RECURSIVE Gcd(_, _)
Gcd(a, b) == IF b = 0 THEN a ELSE Gcd(b, a % b)

Abs(x) == IF x < 0 THEN -x ELSE x

\* the fraction n/d, d # 0, in lowest terms with a positive denominator
Rat(n, d) ==
    LET g == Gcd(Abs(n), Abs(d))
        sgn == IF d < 0 THEN -1 ELSE 1
    IN [k |-> "fin", n |-> sgn * (n \div g), d |-> sgn * (d \div g)]

Fin(n) == [k |-> "fin", n |-> n, d |-> 1]

NaN == [k |-> "nan", n |-> 0, d |-> 1]

PosInf == [k |-> "inf", n |-> 1, d |-> 1]

NegInf == [k |-> "ninf", n |-> -1, d |-> 1]

\* plausible slip: the stat is read with parseInt, which has no number for
\* null
ToNumberParseInt(v) ==
    CASE v.t = "number" -> Fin(v.s)
      [] OTHER -> NaN

\* the implicit conversion of an operand of -, >, <= and >=
ToNumber(v) ==
    CASE v.t = "number" -> Fin(v.s)
      [] v.t = "null" -> Fin(0)
      [] OTHER -> NaN

\* a - b for a finite or NaN and b finite
JsSub(a, b) ==
    IF a.k = "nan" \/ b.k = "nan" THEN NaN
    ELSE Rat(a.n * b.d - b.n * a.d, a.d * b.d)

\* a / b for a finite or NaN and b finite
JsDiv(a, b) ==
    IF a.k = "nan" \/ b.k = "nan" THEN NaN
    ELSE IF b.n = 0
         THEN (IF a.n = 0 THEN NaN ELSE IF a.n > 0 THEN PosInf ELSE NegInf)
         ELSE Rat(a.n * b.d, a.d * b.n)

\* a * 100
JsTimes100(a) == IF a.k = "fin" THEN Rat(100 * a.n, a.d) ELSE a

\* a < b, false when either is NaN
JsLess(a, b) ==
    CASE a.k = "nan" \/ b.k = "nan" -> FALSE
      [] a.k = "ninf" -> b.k # "ninf"
      [] a.k = "inf" -> FALSE
      [] b.k = "ninf" -> FALSE
      [] b.k = "inf" -> TRUE
      [] OTHER -> a.n * b.d < b.n * a.d

JsLessEq(a, b) ==
    a.k # "nan" /\ b.k # "nan" /\ ~JsLess(b, a)

\* Math.max(a, b) and Math.min(a, b): NaN when either argument is NaN
MathMax(a, b) ==
    IF a.k = "nan" \/ b.k = "nan" THEN NaN
    ELSE IF JsLess(a, b) THEN b ELSE a

MathMin(a, b) ==
    IF a.k = "nan" \/ b.k = "nan" THEN NaN
    ELSE IF JsLess(b, a) THEN b ELSE a

----------------------------------------------------------------------------
(* AchievementProgress *)

categories == <<"Kms", "Leads", "Sweeps", "RPs", "Rides">>

getStatValue(u, category) ==
    CASE category = "Kms" -> u.totalKms
      [] category = "Leads" -> u.leads
      [] category = "Sweeps" -> u.sweeps
      [] category = "RPs" -> u.rps
      [] category = "Rides" -> u.totalRides
      [] OTHER -> Num(0)

\* Array.prototype.filter is SelectSeq of the Sequences module

\* plausible slip: an element goes in front of the ones it compares equal
\* to, which turns equal thresholds round
RECURSIVE InsertByThresholdBeforeEqual(_, _)
InsertByThresholdBeforeEqual(sorted, a) ==
    IF Len(sorted) = 0 THEN <<a>>
    ELSE IF a.threshold - Head(sorted).threshold <= 0
         THEN <<a>> \o sorted
         ELSE <<Head(sorted)>> \o InsertByThresholdBeforeEqual(Tail(sorted), a)

\* place of a in an ascending list: behind every element that does not
\* compare greater, which keeps equal thresholds in their given order
RECURSIVE InsertByThreshold(_, _)
InsertByThreshold(sorted, a) ==
    IF Len(sorted) = 0 THEN <<a>>
    ELSE IF a.threshold - Head(sorted).threshold < 0
         THEN <<a>> \o sorted
         ELSE <<Head(sorted)>> \o InsertByThreshold(Tail(sorted), a)

\* .sort((a, b) => a.threshold - b.threshold), a stable sort
RECURSIVE SortByThreshold(_)
SortByThreshold(seq) ==
    IF Len(seq) = 0 THEN <<>>
    ELSE InsertByThreshold(SortByThreshold(SubSeq(seq, 1, Len(seq) - 1)),
                           seq[Len(seq)])

\* plausible slip: the category filter is left out
CategoryAchievementsUnfiltered(achievements, category) ==
    SortByThreshold(achievements)

CategoryAchievements(achievements, category) ==
    LET InCategory(a) == a.category = category
    IN SortByThreshold(SelectSeq(achievements, InCategory))

\* settings.achievements after the expression of catAchievements has run:
\* filter hands back a new array and sort reorders the array it is called
\* on, here that new array, so the array of the settings is not written
CatalogueAfter(achievements, category) == achievements

\* plausible slip: when no threshold is beyond the stat the first milestone
\* is taken in place of the last
NextAchievementOrFirst(catAchievements, catValue) ==
    LET Beyond(a) == JsLess(ToNumber(catValue), Fin(a.threshold))
        found == SelectSeq(catAchievements, Beyond)
    IN IF Len(found) > 0 THEN found[1] ELSE catAchievements[1]

\* plausible slip: >= in place of > when looking for the next milestone
NextAchievementInclusive(catAchievements, catValue) ==
    LET Beyond(a) == JsLessEq(ToNumber(catValue), Fin(a.threshold))
        found == SelectSeq(catAchievements, Beyond)
    IN IF Len(found) > 0 THEN found[1]
       ELSE catAchievements[Len(catAchievements)]

\* catAchievements.find(a => a.threshold > catValue) || last element
NextAchievement(catAchievements, catValue) ==
    LET Beyond(a) == JsLess(ToNumber(catValue), Fin(a.threshold))
        found == SelectSeq(catAchievements, Beyond)
    IN IF Len(found) > 0 THEN found[1]
       ELSE catAchievements[Len(catAchievements)]

\* plausible slip: the first reached milestone is taken, slice(0, 1)
PrevThresholdFirstReached(catAchievements, catValue) ==
    LET Reached(a) == JsLessEq(Fin(a.threshold), ToNumber(catValue))
        reached == SelectSeq(catAchievements, Reached)
    IN IF Len(reached) > 0 THEN reached[1].threshold ELSE 0

\* catAchievements.filter(a => a.threshold <= catValue).slice(-1)[0]?.threshold || 0
PrevThreshold(catAchievements, catValue) ==
    LET Reached(a) == JsLessEq(Fin(a.threshold), ToNumber(catValue))
        reached == SelectSeq(catAchievements, Reached)
    IN IF Len(reached) > 0 THEN reached[Len(reached)].threshold ELSE 0

Progress(catValue, prevThreshold, nextAchievement) ==
    MathMin(Fin(100), MathMax(Fin(0),
        JsTimes100(JsDiv(JsSub(ToNumber(catValue), Fin(prevThreshold)),
                         Fin(nextAchievement.threshold - prevThreshold)))))

\* plausible slip: > in place of >=
IsMaxedStrict(catAchievements, catValue) ==
    JsLess(Fin(catAchievements[Len(catAchievements)].threshold),
           ToNumber(catValue))

IsMaxed(catAchievements, catValue) ==
    JsLessEq(Fin(catAchievements[Len(catAchievements)].threshold),
             ToNumber(catValue))

\* plausible slip: the bar is drawn from progress alone
BarWidthNoOverride(isMaxed, progress) == progress

\* width: `${isMaxed ? 100 : progress}%`
BarWidth(isMaxed, progress) == IF isMaxed THEN Fin(100) ELSE progress

Card(fields) == [t |-> "card", s |-> fields]

\* the callback of categories.map
CategoryCard(u, achievements, category) ==
    LET catValue == getStatValue(u, category)
        catAchievements == CategoryAchievements(achievements, category)
    IN IF Len(catAchievements) = 0 THEN Null
       ELSE LET nextAchievement == NextAchievement(catAchievements, catValue)
                prevThreshold == PrevThreshold(catAchievements, catValue)
                progress == Progress(catValue, prevThreshold, nextAchievement)
                isMaxed == IsMaxed(catAchievements, catValue)
            IN Card([category |-> category,
                     catAchievements |-> catAchievements,
                     catValue |-> catValue,
                     nextAchievement |-> nextAchievement,
                     prevThreshold |-> prevThreshold,
                     progress |-> progress,
                     isMaxed |-> isMaxed,
                     width |-> BarWidth(isMaxed, progress)])

Element(children) == [t |-> "element", s |-> children]

\* the settings prop once categories.map has run over the first n categories
RECURSIVE SettingsAfterRender(_, _)
SettingsAfterRender(st, n) ==
    IF n = 0 \/ st = Null \/ ~Truthy(st.achievements) THEN st
    ELSE LET before == SettingsAfterRender(st, n - 1)
         IN [before EXCEPT !.achievements =
                Arr(CatalogueAfter(before.achievements.s, categories[n]))]

AchievementProgress(u, st) ==
    IF st = Null \/ ~Truthy(st.achievements) THEN Null
    ELSE Element([i \in 1..Len(categories) |->
                     CategoryCard(u, st.achievements.s, categories[i])])

----------------------------------------------------------------------------
(* Props AchievementProgress is rendered with *)

MaxAch == 2

MaxThreshold == 2

MaxStat == 1

MaxNonZeroStats == 1

Labels == <<"Iron Butt", "First Lead", "Road Master", "Guardian",
            "Tactician", "Veteran">>

CategorySet == { categories[i] : i \in 1..Len(categories) }

\* catalogues of n achievements; the i-th one carries the i-th label
Catalogues(n) ==
    { [i \in 1..n |-> [threshold |-> tc[i][1], label |-> Labels[i],
                       category |-> tc[i][2]]] :
        tc \in [1..n -> (0..MaxThreshold) \X CategorySet] }

SettingsProps ==
    { Null } \cup
    { [achievements |-> Arr(c)] : c \in UNION { Catalogues(n) : n \in 0..MaxAch } }

StatFields == {"totalKms", "leads", "sweeps", "rps", "totalRides"}

\* a counter column holds a number, or NULL in a row written outside addRider
StatValues == { Null } \cup { Num(n) : n \in 0..MaxStat }

\* the counters api.addRider writes
NewRider == [f \in StatFields |-> Num(0)]

RECURSIVE UsersWithStats(_)
UsersWithStats(n) ==
    IF n = 0 THEN {NewRider}
    ELSE LET U == UsersWithStats(n - 1) IN
         U \cup { [u EXCEPT ![f] = v] : u \in U, f \in StatFields, v \in StatValues }

Users == UsersWithStats(MaxNonZeroStats)

NoUser == <<>>

----------------------------------------------------------------------------
(* Inputs of the sanitizer *)

MaxPad == 1

RECURSIVE Spaces(_)
Spaces(n) == IF n = 0 THEN <<>> ELSE <<" ">> \o Spaces(n - 1)

ColorBases == {
    <<>>,
    LEGACY_RED_HEX,
    LegacyRgb,
    <<"r","g","b","a","(">> \o LegacyTriple \o <<","," ","0",".","5",")">>,
    <<"r","g","b","(","2","2","5",",","2","9",",","7","1",")">>,
    PureRedHex,
    RedName,
    <<"R","e","d">>,
    <<"d","a","r","k","r","e","d">>,
    <<"#","1","2","3","4","5","6">>,
    <<"#","e","1","1","d","4","8">>,
    BRAND_GREEN,
    <<"n","o","t"," ","a"," ","c","o","l","o","r">> }

ColorStrings ==
    { Spaces(l) \o b \o Spaces(r) :
        l \in 0..MaxPad, r \in 0..MaxPad,
        b \in ColorBases \cup { toUpperCase(x) : x \in ColorBases } }

ColorInputs == { Undefined, Null } \cup { Str(s) : s \in ColorStrings }

----------------------------------------------------------------------------
(* BrandingStyles: the theme projector *)

BRAND_COLOR == <<"#","a","4","e","6","3","6">>

ProjectorCardBorder == <<"#","2","2","2","2","2","2">>

\* the nine font expressions of the Set literal, in source order: the field
\* read and the literal after ||
FontRules == <<
    [field |-> "globalFont", fallback |-> Montserrat],
    [field |-> "headingFont", fallback |-> BebasNeue],
    [field |-> "navFont", fallback |-> BebasNeue],
    [field |-> "statFont", fallback |-> BebasNeue],
    [field |-> "buttonFont", fallback |-> BebasNeue],
    [field |-> "inputFont", fallback |-> Montserrat],
    [field |-> "achievementFont", fallback |-> BebasNeue],
    [field |-> "cardHeaderFont", fallback |-> BebasNeue],
    [field |-> "sectionHeaderFont", fallback |-> BebasNeue] >>

\* the eighteen declarations of the :root block, in source order
StyleRules == <<
    [name |-> "--primary-color", field |-> "primaryColor",
     fallback |-> BRAND_COLOR, font |-> FALSE],
    [name |-> "--dashboard-bg", field |-> "dashboardBg",
     fallback |-> Black, font |-> FALSE],
    [name |-> "--header-bg", field |-> "headerBg",
     fallback |-> Black, font |-> FALSE],
    [name |-> "--header-text", field |-> "headerText",
     fallback |-> White, font |-> FALSE],
    [name |-> "--card-bg", field |-> "cardBg",
     fallback |-> CardBgDefault, font |-> FALSE],
    [name |-> "--card-border", field |-> "cardBorder",
     fallback |-> ProjectorCardBorder, font |-> FALSE],
    [name |-> "--global-font", field |-> "globalFont",
     fallback |-> Montserrat, font |-> TRUE],
    [name |-> "--heading-font", field |-> "headingFont",
     fallback |-> BebasNeue, font |-> TRUE],
    [name |-> "--nav-font", field |-> "navFont",
     fallback |-> BebasNeue, font |-> TRUE],
    [name |-> "--stat-font", field |-> "statFont",
     fallback |-> BebasNeue, font |-> TRUE],
    [name |-> "--button-font", field |-> "buttonFont",
     fallback |-> BebasNeue, font |-> TRUE],
    [name |-> "--input-font", field |-> "inputFont",
     fallback |-> Montserrat, font |-> TRUE],
    [name |-> "--achievement-font", field |-> "achievementFont",
     fallback |-> BebasNeue, font |-> TRUE],
    [name |-> "--card-header-font", field |-> "cardHeaderFont",
     fallback |-> BebasNeue, font |-> TRUE],
    [name |-> "--section-header-font", field |-> "sectionHeaderFont",
     fallback |-> BebasNeue, font |-> TRUE],
    [name |-> "--button-bg", field |-> "buttonBg",
     fallback |-> BRAND_COLOR, font |-> FALSE],
    [name |-> "--button-text", field |-> "buttonText",
     fallback |-> Black, font |-> FALSE],
    [name |-> "--stat-color", field |-> "statColor",
     fallback |-> BRAND_COLOR, font |-> FALSE] >>

\* `${v}` for the values a settings field holds
TemplateText(v) ==
    CASE v.t = "string" -> v.s
      [] v.t = "null" -> <<"n","u","l","l">>
      [] OTHER -> <<"u","n","d","e","f","i","n","e","d">>

\* '${font}', sans-serif
FontStack(font) ==
    <<"'">> \o font \o <<"'",","," ","s","a","n","s","-","s","e","r","i","f">>

\* Array.from(new Set(list)): the first occurrence of each value, in order
RECURSIVE Distinct(_)
Distinct(list) ==
    IF list = <<>> THEN <<>>
    ELSE LET init == Distinct(SubSeq(list, 1, Len(list) - 1))
             last == list[Len(list)]
         IN IF \E i \in 1..Len(init) : init[i] = last
            THEN init ELSE Append(init, last)

\* f.replace(/\s+/g, '+'): every maximal run of white space becomes one +
RECURSIVE ReplaceWhiteSpace(_)
ReplaceWhiteSpace(f) ==
    IF f = <<>> THEN <<>>
    ELSE IF Head(f) \in WhiteSpace
         THEN IF Len(f) > 1 /\ f[2] \in WhiteSpace
              THEN ReplaceWhiteSpace(Tail(f))
              ELSE <<"+">> \o ReplaceWhiteSpace(Tail(f))
         ELSE <<Head(f)>> \o ReplaceWhiteSpace(Tail(f))

\* plausible slip: the declarations interpolate the field without || fallback
StyleValueNoFallback(st, rule) ==
    LET text == TemplateText(st[rule.field])
    IN IF rule.font THEN FontStack(text) ELSE text

\* the value interpolated into one declaration
StyleValue(st, rule) ==
    LET text == TemplateText(OrElse(st[rule.field], Str(rule.fallback)))
    IN IF rule.font THEN FontStack(text) ELSE text

\* the style element for a loaded model: the font families named in the
\* @import lines and the declarations of the :root block
StyleSheet(st) ==
    [imports |->
        LET fonts == Distinct([i \in 1..Len(FontRules) |->
                TemplateText(OrElse(st[FontRules[i].field],
                                    Str(FontRules[i].fallback)))])
        IN [i \in 1..Len(fonts) |-> ReplaceWhiteSpace(fonts[i])],
     vars |-> [i \in 1..Len(StyleRules) |->
        [name |-> StyleRules[i].name,
         value |-> StyleValue(st, StyleRules[i])]]]

\* plausible slip: an unloaded model is projected as the default record
BrandingStylesDefaultsWhenNull(st) ==
    IF st = Null THEN StyleSheet(defaults) ELSE StyleSheet(st)

\* if (!settings) return null
BrandingStyles(st) == IF st = Null THEN Null ELSE StyleSheet(st)

\* updateField's new draft: { ...localSettings, [field]: value }
WithField(local, field, value) == [local EXCEPT ![field] = value]

----------------------------------------------------------------------------
(* Models handed to the theme projector: what a fetch returns, then edited *)
(* in the admin panel's colour and font inputs                             *)

ModelRowEdits == 1

MaxModelEdits == 1

CustomColor == <<"#","1","2","3","4","5","6">>

InputEdits ==
    (ColorFields \X {Str(<<>>), Str(CustomColor)})
        \cup (FontFields \X {Str(<<>>), Str(Roboto)})

FetchedModels ==
    { getClubSettings([error |-> FALSE, found |-> TRUE, data |-> r]) :
        r \in RowsWithEdits(ModelRowEdits) }

RECURSIVE ModelsWithEdits(_)
ModelsWithEdits(n) ==
    IF n = 0 THEN FetchedModels
    ELSE LET M == ModelsWithEdits(n - 1) IN
         M \cup { WithField(m, e[1], e[2]) : m \in M, e \in InputEdits }

BrandingModels == {Null} \cup ModelsWithEdits(MaxModelEdits)

----------------------------------------------------------------------------
(* The stored tables and the access layer's calls on them *)

Marshal == "Marshal"

Rider == "Rider"

\* a users row as addRider inserts it: the five counters start at 0
NewUser(id, password, name, clubRole) ==
    [id |-> id, password |-> password, name |-> name, clubRole |-> clubRole,
     totalRides |-> Num(0), totalKms |-> Num(0), leads |-> Num(0),
     sweeps |-> Num(0), rps |-> Num(0)]

MarshalUser == NewUser(<<"1">>, <<"a">>, "Asha", Marshal)

RiderUser == NewUser(<<"2">>, <<"b">>, "Ravi", Rider)

StoredUsers == {MarshalUser, RiderUser}

\* a rides row as createRide inserts it
NewRide(rideData) ==
    [title |-> rideData.title, summary |-> rideData.summary,
     marshalId |-> rideData.marshalId, status |-> "upcoming"]

\* insert(...).select(): the table gives the row the next id of its sequence
InsertRide(table, id, rideData) ==
    Append(table, [id |-> id] @@ NewRide(rideData))

FirstRide ==
    InsertRide(<<>>, 1, [title |-> <<"R">>, summary |-> <<"S">>,
                         marshalId |-> <<"1">>])[1]

SecondRide ==
    InsertRide(<<>>, 2, [title |-> <<"T">>, summary |-> <<"S">>,
                         marshalId |-> <<"1">>])[1]

StoredRoster == <<
    [rideId |-> 1, userId |-> <<"1">>, attended |-> FALSE],
    [rideId |-> 1, userId |-> <<"2">>, attended |-> TRUE],
    [rideId |-> 2, userId |-> <<"1">>, attended |-> TRUE] >>

\* select('*').eq('rideId', rideId) on the ride_participants table
getRideParticipants(table, rideId) ==
    LET OfRide(p) == p.rideId = rideId IN SelectSeq(table, OfRide)

\* select('*') on the rides table; the rows of the model carry no date,
\* the order of the table stands for the order by date
getRides(table) == table

deleteRideFirstRow(table, rideId) == Tail(table)

\* delete().eq('id', rideId) on the rides table
deleteRide(table, rideId) ==
    LET Others(row) == row.id # rideId IN SelectSeq(table, Others)

\* the club_settings table without and with its row
StoredRows == { [found |-> FALSE, data |-> NoRow],
                [found |-> TRUE, data |-> BaseRow] }

\* plausible slip: the achievements are left to a second write
updateClubSettingsWithoutAchievements(row, draft) ==
    LET keys == IF draft = Null THEN {}
                ELSE { f \in SettingsFields \ {"achievements"} :
                        draft[f] # Undefined }
    IN [found |-> TRUE,
        data |-> [f \in SettingsFields |->
                    IF f \in keys THEN draft[f] ELSE row.data[f]]]

\* upsert({ id: 1, ...settings }): the columns named by the payload are
\* written, every other column of an existing row keeps its value and is
\* NULL in a new row; a null draft spreads to no key, a key whose value is
\* undefined is dropped by the JSON encoding
updateClubSettings(row, draft) ==
    LET keys == IF draft = Null THEN {}
                ELSE { f \in SettingsFields : draft[f] # Undefined }
    IN [found |-> TRUE,
        data |-> [f \in SettingsFields |->
                    IF f \in keys THEN draft[f] ELSE row.data[f]]]

CredentialsRequired == "Credentials required."

InvalidCredentials == "Authentication failed: Invalid Credentials"

LookupFailed == "Authentication failed: lookup error"

\* the select of login: maybeSingle gives the one matching row, null for no
\* match and an error for a failed lookup or more than one match
login(table, id, password, failed) ==
    LET matches == { u \in table : u.id = id /\ u.password = password }
    IN IF failed \/ Cardinality(matches) > 1
       THEN [ok |-> FALSE, message |-> LookupFailed, data |-> Null]
       ELSE IF matches = {}
            THEN [ok |-> FALSE, message |-> InvalidCredentials, data |-> Null]
            ELSE [ok |-> TRUE, message |-> "",
                  data |-> CHOOSE u \in matches : TRUE]

\* s.replace(/\s+/g, '')
RECURSIVE RemoveWhiteSpace(_)
RemoveWhiteSpace(str) ==
    IF str = <<>> THEN <<>>
    ELSE IF Head(str) \in WhiteSpace THEN RemoveWhiteSpace(Tail(str))
         ELSE <<Head(str)>> \o RemoveWhiteSpace(Tail(str))

----------------------------------------------------------------------------
(* Inputs and bounds of the App session *)

PhoneInputs == { <<>>, <<"1">>, <<"2"," ">> }

PasswordInputs == { <<" ">>, <<"a">>, <<" ","b">> }

TitleInputs == { <<>>, <<"T">> }

SummaryInputs == { <<>>, <<"S">> }

\* the edits typed into the admin panel in the session specifications
DraftEdits == { <<"globalFont", Str(<<>>)>>, <<"achievements", Arr(<<>>)>> }

\* a complete draft authorized from another session
OtherDraft == [BaseRow EXCEPT !["statFont"] = Str(Roboto)]

\* the edits typed into the profile form and the member form
ProfileEdits == { <<"name", "Zed">> }

MemberEdits == { <<"name", "Zed">>, <<"id", <<"1">>>>, <<"id", <<"3">>>> }

MaxInFlight == 1

MaxIncrements == 1

MaxRides == 2

\* a fetched list of rows, without its order
Listed(rows) == [t |-> "array", s |-> rows]

\* the state of a component that is not mounted
Unmounted == [t |-> "unmounted", s |-> <<>>]

\* requests whose component has been unmounted: their state updates are lost
Orphaned(requests) == { [r EXCEPT !.live = FALSE] : r \in requests }

\* every variable outside the specification at hand is parked
AppIdle ==
    /\ styles = NotRun
    /\ fetchCalls = 0
    /\ fetchPending = FALSE
    /\ clubSettingsRow = [found |-> FALSE, data |-> NoRow]
    /\ users = {}
    /\ ridesTable = <<>>
    /\ rideIds = 0
    /\ tempUser = Null
    /\ showEntrySequence = FALSE
    /\ loading = FALSE
    /\ error = ""
    /\ loginRequest = Null
    /\ showSettingsModal = FALSE
    /\ showCreateRideModal = FALSE
    /\ refreshKey = 0
    /\ localSettings = Unmounted
    /\ showConfirm = FALSE
    /\ authorizeRequests = {}
    /\ saving = FALSE
    /\ showSuccess = FALSE
    /\ createRequests = {}
    /\ createTimers = 0
    /\ selectedRide = Null
    /\ rosterRequests = {}
    /\ participants = <<>>
    /\ pendingAttendance = Null
    /\ showRiderControlModal = FALSE
    /\ formData = Unmounted
    /\ savingProfile = FALSE
    /\ members = Unmounted
    /\ membersPending = FALSE
    /\ editingMember = Null
    /\ updateRequests = {}
    /\ selectedMember = Null
    /\ rides = Unmounted
    /\ ridesPending = FALSE
    /\ deletingRide = Null
    /\ deleteRequests = {}

----------------------------------------------------------------------------
(* Specification of the sanitizer applied once and twice *)

InitSanitize ==
    /\ color \in ColorInputs
    /\ sanitized = NotRun
    /\ resanitized = NotRun
    /\ response = NoResponse
    /\ fetched = NotFetched
    /\ user = NoUser
    /\ settings = Null
    /\ view = NotRun
    /\ AppIdle

Sanitize ==
    /\ sanitized = NotRun
    /\ sanitized' = sanitizeColor(color)
    /\ UNCHANGED <<color, resanitized, settingsVars, progressVars, appVars>>

SanitizeAgain ==
    /\ sanitized # NotRun
    /\ resanitized = NotRun
    /\ resanitized' = sanitizeColor(sanitized)
    /\ UNCHANGED <<color, sanitized, settingsVars, progressVars, appVars>>

NextSanitize == Sanitize \/ SanitizeAgain

SpecSanitize == InitSanitize /\ [][NextSanitize]_vars

----------------------------------------------------------------------------
(* Specification of one fetch of the club settings *)

InitSettings ==
    /\ response \in Responses
    /\ fetched = NotFetched
    /\ color = Undefined
    /\ sanitized = NotRun
    /\ resanitized = NotRun
    /\ user = NoUser
    /\ settings = Null
    /\ view = NotRun
    /\ AppIdle

FetchSettings ==
    /\ fetched = NotFetched
    /\ fetched' = getClubSettings(response)
    /\ UNCHANGED <<response, sanitizeVars, progressVars, appVars>>

NextSettings == FetchSettings

SpecSettings == InitSettings /\ [][NextSettings]_vars

----------------------------------------------------------------------------
(* Specification of one render of AchievementProgress *)

InitProgress ==
    /\ user \in Users
    /\ settings \in SettingsProps
    /\ view = NotRun
    /\ color = Undefined
    /\ sanitized = NotRun
    /\ resanitized = NotRun
    /\ response = NoResponse
    /\ fetched = NotFetched
    /\ AppIdle

Render ==
    /\ view = NotRun
    /\ user # NoUser
    /\ view' = AchievementProgress(user, settings)
    /\ settings' = SettingsAfterRender(settings, Len(categories))
    /\ UNCHANGED <<user, sanitizeVars, settingsVars, appVars>>

NextProgress == Render

SpecProgress == InitProgress /\ [][NextProgress]_vars

----------------------------------------------------------------------------
(* Specification of one render of BrandingStyles *)

InitBranding ==
    /\ settings \in BrandingModels
    /\ styles = NotRun
    /\ fetchCalls = 0
    /\ fetchPending = FALSE
    /\ clubSettingsRow = [found |-> FALSE, data |-> NoRow]
    /\ users = {}
    /\ ridesTable = <<>>
    /\ rideIds = 0
    /\ tempUser = Null
    /\ showEntrySequence = FALSE
    /\ loading = FALSE
    /\ error = ""
    /\ loginRequest = Null
    /\ showSettingsModal = FALSE
    /\ showCreateRideModal = FALSE
    /\ refreshKey = 0
    /\ localSettings = Unmounted
    /\ showConfirm = FALSE
    /\ authorizeRequests = {}
    /\ saving = FALSE
    /\ showSuccess = FALSE
    /\ createRequests = {}
    /\ createTimers = 0
    /\ selectedRide = Null
    /\ rosterRequests = {}
    /\ participants = <<>>
    /\ pendingAttendance = Null
    /\ showRiderControlModal = FALSE
    /\ formData = Unmounted
    /\ savingProfile = FALSE
    /\ members = Unmounted
    /\ membersPending = FALSE
    /\ editingMember = Null
    /\ updateRequests = {}
    /\ selectedMember = Null
    /\ rides = Unmounted
    /\ ridesPending = FALSE
    /\ deletingRide = Null
    /\ deleteRequests = {}
    /\ user = NoUser
    /\ view = NotRun
    /\ color = Undefined
    /\ sanitized = NotRun
    /\ resanitized = NotRun
    /\ response = NoResponse
    /\ fetched = NotFetched

RenderBranding ==
    /\ styles = NotRun
    /\ styles' = BrandingStyles(settings)
    /\ UNCHANGED <<sanitizeVars, settingsVars, progressVars, fetchVars,
                   storeVars, loginVars, panelVars, createVars, rosterVars,
                   refreshKey, authorizeRequests, peopleVars, dashboardVars>>

NextBranding == RenderBranding

SpecBranding == InitBranding /\ [][NextBranding]_vars

----------------------------------------------------------------------------
(* The App session *)

\* the variables of the single-function specifications
idleVars == <<color, sanitized, resanitized, fetched, view>>

\* App returns the login page
LoginPageShown == user = Null /\ ~(showEntrySequence /\ tempUser # Null)

\* App returns the header, the dashboard and the modals
DashboardShown == user # Null /\ ~(showEntrySequence /\ tempUser # Null)

PanelShown == DashboardShown /\ showSettingsModal

CreateShown == DashboardShown /\ showCreateRideModal

\* the state after App's first render and its mount effect
InitSession ==
    /\ clubSettingsRow \in StoredRows
    /\ users = StoredUsers
    /\ ridesTable = <<FirstRide>>
    /\ rideIds = 1
    /\ settings = Null
    /\ styles = BrandingStyles(Null)
    /\ fetchCalls = 1
    /\ fetchPending = TRUE
    /\ response = NoResponse
    /\ user = Null
    /\ tempUser = Null
    /\ showEntrySequence = FALSE
    /\ loading = FALSE
    /\ error = ""
    /\ loginRequest = Null
    /\ showSettingsModal = FALSE
    /\ showCreateRideModal = FALSE
    /\ refreshKey = 0
    /\ localSettings = Unmounted
    /\ showConfirm = FALSE
    /\ authorizeRequests = {}
    /\ saving = FALSE
    /\ showSuccess = FALSE
    /\ createRequests = {}
    /\ createTimers = 0
    /\ selectedRide = Null
    /\ rosterRequests = {}
    /\ participants = <<>>
    /\ pendingAttendance = Null
    /\ showRiderControlModal = FALSE
    /\ formData = Unmounted
    /\ savingProfile = FALSE
    /\ members = Unmounted
    /\ membersPending = FALSE
    /\ editingMember = Null
    /\ updateRequests = {}
    /\ selectedMember = Null
    /\ rides = Unmounted
    /\ ridesPending = FALSE
    /\ deletingRide = Null
    /\ deleteRequests = {}
    /\ color = Undefined
    /\ sanitized = NotRun
    /\ resanitized = NotRun
    /\ fetched = NotFetched
    /\ view = NotRun

\* api.getClubSettings().then(setSettings): the select resolves with an
\* error or with the stored row, and the result becomes the session settings
SettingsLoaded ==
    /\ fetchPending
    /\ \E failed \in BOOLEAN :
        LET resp == IF failed
                    THEN [error |-> TRUE, found |-> FALSE, data |-> NoRow]
                    ELSE [error |-> FALSE, found |-> clubSettingsRow.found,
                          data |-> clubSettingsRow.data]
        IN /\ response' = resp
           /\ settings' = getClubSettings(resp)
           /\ styles' = BrandingStyles(getClubSettings(resp))
    /\ fetchPending' = FALSE
    /\ UNCHANGED <<idleVars, dashboardVars, peopleVars, user, fetchCalls, storeVars, loginVars, panelVars,
                   createVars, rosterVars, refreshKey, authorizeRequests>>

\* handleLogin up to its await: empty credentials end it at once
handleLogin ==
    /\ LoginPageShown
    /\ ~loading
    /\ \E phone \in PhoneInputs, password \in PasswordInputs :
        LET cleanPhone == RemoveWhiteSpace(trim(phone))
            cleanPass == trim(password)
        IN IF cleanPhone = <<>> \/ cleanPass = <<>>
           THEN /\ error' = CredentialsRequired
                /\ loading' = FALSE
                /\ loginRequest' = loginRequest
           ELSE /\ error' = ""
                /\ loading' = TRUE
                /\ loginRequest' = [id |-> cleanPhone, password |-> cleanPass]
    /\ UNCHANGED <<idleVars, dashboardVars, peopleVars, response, user, settings, styles, fetchVars,
                   storeVars, tempUser, showEntrySequence, panelVars,
                   createVars, rosterVars, refreshKey, authorizeRequests>>

\* plausible slip: a failed login leaves the loading flag set
LoginResolvedKeepsLoading ==
    /\ loginRequest # Null
    /\ \E failed \in BOOLEAN :
        LET result == login(users, loginRequest.id, loginRequest.password,
                            failed)
        IN IF result.ok
           THEN /\ tempUser' = result.data
                /\ showEntrySequence' = TRUE
                /\ error' = error
                /\ loading' = FALSE
           ELSE /\ error' = result.message
                /\ UNCHANGED <<tempUser, showEntrySequence, loading>>
    /\ loginRequest' = Null
    /\ UNCHANGED <<idleVars, dashboardVars, peopleVars, response, user, settings, styles, fetchVars,
                   storeVars, panelVars, createVars, rosterVars, refreshKey,
                   authorizeRequests>>

\* handleLogin after its await: api.login returned or threw
LoginResolved ==
    /\ loginRequest # Null
    /\ \E failed \in BOOLEAN :
        LET result == login(users, loginRequest.id, loginRequest.password,
                            failed)
        IN IF result.ok
           THEN /\ tempUser' = result.data
                /\ showEntrySequence' = TRUE
                /\ error' = error
           ELSE /\ error' = result.message
                /\ UNCHANGED <<tempUser, showEntrySequence>>
    /\ loading' = FALSE
    /\ loginRequest' = Null
    /\ UNCHANGED <<idleVars, dashboardVars, peopleVars, response, user, settings, styles, fetchVars,
                   storeVars, panelVars, createVars, rosterVars, refreshKey,
                   authorizeRequests>>

\* LoginSequence's onComplete; the dashboard and the modals whose flags are
\* set are mounted, the admin panel with the current settings as its draft
\* and the profile form with the user as its data
EntrySequenceComplete ==
    /\ showEntrySequence
    /\ tempUser # Null
    /\ user' = tempUser
    /\ showEntrySequence' = FALSE
    /\ localSettings' = IF showSettingsModal THEN settings ELSE localSettings
    /\ formData' = IF showRiderControlModal THEN tempUser ELSE formData
    /\ UNCHANGED <<idleVars, dashboardVars, response, settings, styles, fetchVars, storeVars,
                   tempUser, loading, error, loginRequest, showSettingsModal,
                   showConfirm, createVars, rosterVars, refreshKey,
                   authorizeRequests, showRiderControlModal, savingProfile,
                   memberVars, updateRequests>>

\* plausible slip: Logout also closes the privileged modals
LogoutClosesModals ==
    /\ DashboardShown
    /\ user' = Null
    /\ showSettingsModal' = FALSE
    /\ showCreateRideModal' = FALSE
    /\ localSettings' = Unmounted
    /\ showConfirm' = FALSE
    /\ authorizeRequests' = Orphaned(authorizeRequests)
    /\ saving' = FALSE
    /\ showSuccess' = FALSE
    /\ createRequests' = Orphaned(createRequests)
    /\ selectedRide' = Null
    /\ rosterRequests' = {}
    /\ participants' = <<>>
    /\ pendingAttendance' = Null
    /\ formData' = Unmounted
    /\ savingProfile' = FALSE
    /\ members' = Unmounted
    /\ membersPending' = FALSE
    /\ editingMember' = Null
    /\ selectedMember' = Null
    /\ updateRequests' = Orphaned(updateRequests)
    /\ rides' = Unmounted
    /\ ridesPending' = FALSE
    /\ deletingRide' = Null
    /\ deleteRequests' = Orphaned(deleteRequests)
    /\ UNCHANGED <<idleVars, response, settings, styles, fetchVars, storeVars,
                   loginVars, createTimers, refreshKey,
                   showRiderControlModal>>

\* the Logout button: setUser(null); the dashboard and the modals are
\* unmounted with the page, the modal flags stay as they are
Logout ==
    /\ DashboardShown
    /\ user' = Null
    /\ localSettings' = Unmounted
    /\ showConfirm' = FALSE
    /\ authorizeRequests' = Orphaned(authorizeRequests)
    /\ saving' = FALSE
    /\ showSuccess' = FALSE
    /\ createRequests' = Orphaned(createRequests)
    /\ selectedRide' = Null
    /\ rosterRequests' = {}
    /\ participants' = <<>>
    /\ pendingAttendance' = Null
    /\ formData' = Unmounted
    /\ savingProfile' = FALSE
    /\ members' = Unmounted
    /\ membersPending' = FALSE
    /\ editingMember' = Null
    /\ selectedMember' = Null
    /\ updateRequests' = Orphaned(updateRequests)
    /\ rides' = Unmounted
    /\ ridesPending' = FALSE
    /\ deletingRide' = Null
    /\ deleteRequests' = Orphaned(deleteRequests)
    /\ UNCHANGED <<idleVars, response, settings, styles, fetchVars, storeVars,
                   loginVars, showSettingsModal, showCreateRideModal,
                   createTimers, refreshKey,
                   showRiderControlModal>>

\* the Admin Control button, rendered for a Marshal
OpenSettings ==
    /\ DashboardShown
    /\ user.clubRole = Marshal
    /\ ~showSettingsModal
    /\ showSettingsModal' = TRUE
    /\ localSettings' = settings
    /\ showConfirm' = FALSE
    /\ UNCHANGED <<idleVars, dashboardVars, peopleVars, response, user, settings, styles, fetchVars,
                   storeVars, loginVars, createVars, rosterVars, refreshKey,
                   authorizeRequests>>

\* the admin Modal's onClose
CloseSettings ==
    /\ PanelShown
    /\ showSettingsModal' = FALSE
    /\ localSettings' = Unmounted
    /\ showConfirm' = FALSE
    /\ authorizeRequests' = Orphaned(authorizeRequests)
    /\ members' = Unmounted
    /\ membersPending' = FALSE
    /\ editingMember' = Null
    /\ selectedMember' = Null
    /\ updateRequests' = { IF r.from = "member" THEN [r EXCEPT !.live = FALSE]
                            ELSE r : r \in updateRequests }
    /\ UNCHANGED <<idleVars, dashboardVars, profileVars, response, user, settings, styles,
                   fetchVars, storeVars, loginVars, createVars, rosterVars,
                   refreshKey>>

\* AdminPanelContent.updateField with handleSettingsChange as
\* onSettingsChange
updateField ==
    /\ PanelShown
    /\ \E e \in DraftEdits :
        IF localSettings = Null
        THEN UNCHANGED <<localSettings, settings, styles>>
        ELSE /\ localSettings' = WithField(localSettings, e[1], e[2])
             /\ settings' = WithField(localSettings, e[1], e[2])
             /\ styles' = BrandingStyles(WithField(localSettings, e[1], e[2]))
    /\ UNCHANGED <<idleVars, dashboardVars, peopleVars, response, user, fetchVars, storeVars, loginVars,
                   showSettingsModal, showConfirm, createVars, rosterVars,
                   refreshKey, authorizeRequests>>

\* the AUTHORIZE and SYNCHRONIZE buttons: setShowConfirm(true)
RequestAuthorize ==
    /\ PanelShown
    /\ ~showConfirm
    /\ showConfirm' = TRUE
    /\ UNCHANGED <<idleVars, dashboardVars, peopleVars, response, user, settings, styles, fetchVars,
                   storeVars, loginVars, showSettingsModal, localSettings,
                   createVars, rosterVars, refreshKey, authorizeRequests>>

\* the ConfirmationModal's onCancel
CancelAuthorize ==
    /\ PanelShown
    /\ showConfirm
    /\ showConfirm' = FALSE
    /\ UNCHANGED <<idleVars, dashboardVars, peopleVars, response, user, settings, styles, fetchVars,
                   storeVars, loginVars, showSettingsModal, localSettings,
                   createVars, rosterVars, refreshKey, authorizeRequests>>

\* handleAuthorize up to its await: one updateClubSettings call carrying the
\* draft
handleAuthorize ==
    /\ PanelShown
    /\ showConfirm
    /\ Cardinality(authorizeRequests) < MaxInFlight
    /\ authorizeRequests' =
        authorizeRequests \cup {[draft |-> localSettings, live |-> TRUE]}
    /\ UNCHANGED <<idleVars, dashboardVars, peopleVars, response, user, settings, styles, fetchVars,
                   storeVars, loginVars, panelVars, createVars, rosterVars,
                   refreshKey>>

\* plausible slip: a successful authorize fetches the settings again
AuthorizeResolvedRefetches ==
    \E r \in authorizeRequests, ok \in BOOLEAN :
        /\ authorizeRequests' = authorizeRequests \ {r}
        /\ IF ok
           THEN /\ clubSettingsRow' = updateClubSettings(clubSettingsRow, r.draft)
                /\ showConfirm' = IF r.live THEN FALSE ELSE showConfirm
                /\ fetchCalls' = fetchCalls + 1
                /\ fetchPending' = TRUE
           ELSE UNCHANGED <<clubSettingsRow, showConfirm, fetchVars>>
        /\ UNCHANGED <<idleVars, dashboardVars, peopleVars, response, user, settings, styles,
                       users, ridesTable, rideIds, loginVars, showSettingsModal,
                       localSettings, createVars, rosterVars, refreshKey>>

\* handleAuthorize after its await: the upsert was applied or failed
AuthorizeResolved ==
    \E r \in authorizeRequests, ok \in BOOLEAN :
        /\ authorizeRequests' = authorizeRequests \ {r}
        /\ IF ok
           THEN /\ clubSettingsRow' = updateClubSettings(clubSettingsRow, r.draft)
                /\ showConfirm' = IF r.live THEN FALSE ELSE showConfirm
           ELSE UNCHANGED <<clubSettingsRow, showConfirm>>
        /\ UNCHANGED <<idleVars, dashboardVars, peopleVars, response, user, settings, styles, fetchVars,
                       users, ridesTable, rideIds, loginVars, showSettingsModal,
                       localSettings, createVars, rosterVars, refreshKey>>

\* an authorize of a complete draft by another session
OtherSessionAuthorize ==
    /\ clubSettingsRow' = updateClubSettings(clubSettingsRow, OtherDraft)
    /\ UNCHANGED <<idleVars, dashboardVars, peopleVars, response, user, settings, styles, fetchVars,
                   users, ridesTable, rideIds, loginVars, panelVars, createVars,
                   rosterVars, refreshKey, authorizeRequests>>

\* the Create Expedition button, rendered for a Marshal
OpenCreateRide ==
    /\ DashboardShown
    /\ user.clubRole = Marshal
    /\ ~showCreateRideModal
    /\ showCreateRideModal' = TRUE
    /\ UNCHANGED <<idleVars, dashboardVars, peopleVars, response, user, settings, styles, fetchVars,
                   storeVars, loginVars, panelVars, saving, showSuccess,
                   createRequests, createTimers, rosterVars, refreshKey,
                   authorizeRequests>>

\* the create-ride Modal's onClose
CloseCreateRide ==
    /\ CreateShown
    /\ showCreateRideModal' = FALSE
    /\ saving' = FALSE
    /\ showSuccess' = FALSE
    /\ createRequests' = Orphaned(createRequests)
    /\ UNCHANGED <<idleVars, dashboardVars, peopleVars, response, user, settings, styles, fetchVars,
                   storeVars, loginVars, panelVars, createTimers, rosterVars,
                   refreshKey, authorizeRequests>>

\* handleCreate up to its await
handleCreate ==
    /\ CreateShown
    /\ ~saving
    /\ ~showSuccess
    /\ Len(ridesTable) + Cardinality(createRequests) < MaxRides
    /\ \E title \in TitleInputs, summary \in SummaryInputs :
        IF title = <<>> \/ summary = <<>>
        THEN UNCHANGED <<saving, createRequests>>
        ELSE /\ saving' = TRUE
             /\ createRequests' = createRequests \cup
                    {[ride |-> [title |-> title, summary |-> summary,
                                marshalId |-> user.id],
                      live |-> TRUE]}
    /\ UNCHANGED <<idleVars, dashboardVars, peopleVars, response, user, settings, styles, fetchVars,
                   storeVars, loginVars, panelVars, showCreateRideModal,
                   showSuccess, createTimers, rosterVars, refreshKey,
                   authorizeRequests>>

\* handleCreate after its await: on success the checkmark is shown and the
\* 1500 ms timeout is set, whether or not the modal is still mounted
CreateResolved ==
    \E r \in createRequests, ok \in BOOLEAN :
        /\ createRequests' = createRequests \ {r}
        /\ saving' = IF r.live THEN FALSE ELSE saving
        /\ IF ok
           THEN /\ ridesTable' = InsertRide(ridesTable, rideIds + 1, r.ride)
                /\ rideIds' = rideIds + 1
                /\ showSuccess' = IF r.live THEN TRUE ELSE showSuccess
                /\ createTimers' = createTimers + 1
           ELSE UNCHANGED <<ridesTable, rideIds, showSuccess, createTimers>>
        /\ UNCHANGED <<idleVars, dashboardVars, peopleVars, response, user, settings, styles, fetchVars,
                       clubSettingsRow, users, loginVars, panelVars,
                       showCreateRideModal, rosterVars, refreshKey,
                       authorizeRequests>>

\* the timeout's callback: onSave() is refreshMissions, which remounts the
\* dashboard under its new key, and onClose() clears the modal flag
SuccessTimeout ==
    /\ createTimers > 0
    /\ createTimers' = createTimers - 1
    /\ refreshKey' = refreshKey + 1
    /\ showCreateRideModal' = FALSE
    /\ saving' = FALSE
    /\ showSuccess' = FALSE
    /\ createRequests' = Orphaned(createRequests)
    /\ selectedRide' = Null
    /\ rosterRequests' = {}
    /\ participants' = <<>>
    /\ pendingAttendance' = Null
    /\ rides' = Unmounted
    /\ ridesPending' = FALSE
    /\ deletingRide' = Null
    /\ deleteRequests' = Orphaned(deleteRequests)
    /\ UNCHANGED <<idleVars, peopleVars, response, user, settings, styles, fetchVars,
                   storeVars, loginVars, panelVars, authorizeRequests>>

\* Examine Briefing: setSelectedRide(ride). With no briefing open the
\* ride's modal is mounted; with one open the mounted modal gets the new
\* ride and keeps its state. Either way the effect on ride.id fetches the
\* roster. The ride cards are those of the stored table.
SelectRide ==
    /\ DashboardShown
    /\ \E i \in 1..Len(ridesTable) :
        /\ selectedRide' = ridesTable[i]
        /\ IF selectedRide = Null
           THEN /\ rosterRequests' = {ridesTable[i].id}
                /\ participants' = <<>>
                /\ pendingAttendance' = Null
           ELSE /\ rosterRequests' =
                    IF ridesTable[i].id = selectedRide.id THEN rosterRequests
                    ELSE rosterRequests \cup {ridesTable[i].id}
                /\ UNCHANGED <<participants, pendingAttendance>>
    /\ UNCHANGED <<idleVars, dashboardVars, peopleVars, response, user,
                   settings, styles, fetchVars, storeVars, loginVars,
                   panelVars, createVars, refreshKey, authorizeRequests>>

\* RideDetailsModal's fetchData resolved or threw
RosterLoaded ==
    /\ selectedRide # Null
    /\ \E id \in rosterRequests, ok \in BOOLEAN :
        /\ participants' = IF ok THEN getRideParticipants(StoredRoster, id)
                                 ELSE participants
        /\ rosterRequests' = rosterRequests \ {id}
    /\ UNCHANGED <<idleVars, dashboardVars, peopleVars, response, user,
                   settings, styles, fetchVars, storeVars, loginVars,
                   panelVars, createVars, selectedRide, pendingAttendance,
                   refreshKey, authorizeRequests>>

\* RideDetailsModal.toggleAttendance
toggleAttendance ==
    /\ DashboardShown
    /\ selectedRide # Null
    /\ \E i \in 1..Len(participants) :
        IF user.clubRole # Marshal
        THEN pendingAttendance' = pendingAttendance
        ELSE pendingAttendance' =
                [participants[i] EXCEPT !.attended = ~participants[i].attended]
    /\ UNCHANGED <<idleVars, dashboardVars, peopleVars, response, user, settings, styles, fetchVars,
                   storeVars, loginVars, panelVars, createVars, selectedRide,
                   rosterRequests, participants, refreshKey, authorizeRequests>>

\* RideDetailsModal.handleConfirmAttendance
handleConfirmAttendance ==
    /\ DashboardShown
    /\ pendingAttendance # Null
    /\ participants' = [i \in 1..Len(participants) |->
            IF participants[i].userId = pendingAttendance.userId
            THEN pendingAttendance ELSE participants[i]]
    /\ pendingAttendance' = Null
    /\ UNCHANGED <<idleVars, dashboardVars, peopleVars, response, user, settings, styles, fetchVars,
                   storeVars, loginVars, panelVars, createVars, selectedRide,
                   rosterRequests, refreshKey, authorizeRequests>>

\* the attendance ConfirmationModal's onCancel
CancelAttendance ==
    /\ DashboardShown
    /\ pendingAttendance # Null
    /\ pendingAttendance' = Null
    /\ UNCHANGED <<idleVars, dashboardVars, peopleVars, response, user, settings, styles, fetchVars,
                   storeVars, loginVars, panelVars, createVars, selectedRide,
                   rosterRequests, participants, refreshKey, authorizeRequests>>

\* RideDetailsModal's onClose
CloseRide ==
    /\ DashboardShown
    /\ selectedRide # Null
    /\ selectedRide' = Null
    /\ rosterRequests' = {}
    /\ participants' = <<>>
    /\ pendingAttendance' = Null
    /\ UNCHANGED <<idleVars, dashboardVars, peopleVars, response, user, settings, styles, fetchVars,
                   storeVars, loginVars, panelVars, createVars, refreshKey,
                   authorizeRequests>>

\* the stat counters of a users row
StatCounters == {"totalRides", "totalKms", "leads", "sweeps", "rps"}

\* { ...row, ...data }: the keys of data replace those of the row
Merged(row, data) ==
    [k \in DOMAIN row |-> IF k \in DOMAIN data THEN data[k] ELSE row[k]]

\* update(data).eq('id', userId): every column named by data is written in
\* the rows whose id is userId
updateUser(table, userId, data) ==
    { IF u.id = userId THEN Merged(u, data) ELSE u : u \in table }

\* the update is refused when it would give two rows the same id
updateUserRefused(table, userId, data) ==
    Cardinality({ u.id : u \in updateUser(table, userId, data) })
        < Cardinality({ u.id : u \in table })

\* the Rider Control buttons of the header and the hero section
OpenProfile ==
    /\ DashboardShown
    /\ ~showRiderControlModal
    /\ showRiderControlModal' = TRUE
    /\ formData' = user
    /\ savingProfile' = FALSE
    /\ UNCHANGED <<idleVars, dashboardVars, response, user, settings, styles, fetchVars,
                   storeVars, loginVars, panelVars, createVars, rosterVars,
                   refreshKey, authorizeRequests, memberVars, updateRequests>>

\* the profile Modal's onClose
CloseProfile ==
    /\ DashboardShown
    /\ showRiderControlModal
    /\ showRiderControlModal' = FALSE
    /\ formData' = Unmounted
    /\ savingProfile' = FALSE
    /\ updateRequests' = { IF r.from = "profile" THEN [r EXCEPT !.live = FALSE]
                            ELSE r : r \in updateRequests }
    /\ UNCHANGED <<idleVars, dashboardVars, response, user, settings, styles, fetchVars,
                   storeVars, loginVars, panelVars, createVars, rosterVars,
                   refreshKey, authorizeRequests, memberVars>>

\* an input of the profile form: setFormData({ ...formData, [field]: value })
EditProfile ==
    /\ DashboardShown
    /\ showRiderControlModal
    /\ \E e \in ProfileEdits : formData' = [formData EXCEPT ![e[1]] = e[2]]
    /\ UNCHANGED <<idleVars, dashboardVars, response, user, settings, styles, fetchVars,
                   storeVars, loginVars, panelVars, createVars, rosterVars,
                   refreshKey, authorizeRequests, showRiderControlModal,
                   savingProfile, memberVars, updateRequests>>

\* RiderControlModal.handleSave up to its await
handleSave ==
    /\ DashboardShown
    /\ showRiderControlModal
    /\ ~savingProfile
    /\ Cardinality(updateRequests) < MaxInFlight
    /\ savingProfile' = TRUE
    /\ updateRequests' = updateRequests \cup
            {[userId |-> user.id, data |-> formData, base |-> user,
              from |-> "profile", live |-> TRUE]}
    /\ UNCHANGED <<idleVars, dashboardVars, response, user, settings, styles, fetchVars,
                   storeVars, loginVars, panelVars, createVars, rosterVars,
                   refreshKey, authorizeRequests, showRiderControlModal,
                   formData, memberVars>>

\* RiderControlModal.handleSave after its await: on success App's onSave
\* sets the session user and closes the modal
SaveResolved ==
    \E r \in updateRequests, ok \in BOOLEAN :
        /\ r.from = "profile"
        /\ ok => ~updateUserRefused(users, r.userId, r.data)
        /\ IF ok
           THEN /\ users' = updateUser(users, r.userId, r.data)
                /\ user' = Merged(r.base, r.data)
                /\ showRiderControlModal' = FALSE
                /\ formData' = Unmounted
                /\ savingProfile' = FALSE
                /\ updateRequests' =
                    { IF q.from = "profile" THEN [q EXCEPT !.live = FALSE]
                      ELSE q : q \in updateRequests \ {r} }
           ELSE /\ savingProfile' = IF r.live THEN FALSE ELSE savingProfile
                /\ updateRequests' = updateRequests \ {r}
                /\ UNCHANGED <<users, user, showRiderControlModal, formData>>
        /\ UNCHANGED <<idleVars, dashboardVars, response, settings, styles, fetchVars,
                       clubSettingsRow, ridesTable, rideIds, loginVars, panelVars,
                       createVars, rosterVars, refreshKey, authorizeRequests,
                       memberVars>>

\* the Members tab of the admin panel: MemberManagement is mounted and
\* fetches the users
OpenMembers ==
    /\ PanelShown
    /\ members = Unmounted
    /\ members' = Listed({})
    /\ membersPending' = TRUE
    /\ editingMember' = Null
    /\ selectedMember' = Null
    /\ UNCHANGED <<idleVars, dashboardVars, response, user, settings, styles, fetchVars,
                   storeVars, loginVars, panelVars, createVars, rosterVars,
                   refreshKey, authorizeRequests, profileVars, updateRequests>>

\* api.getUsers().then(setMembers)
MembersLoaded ==
    /\ membersPending
    /\ members # Unmounted
    /\ members' = Listed(users)
    /\ membersPending' = FALSE
    /\ UNCHANGED <<idleVars, dashboardVars, response, user, settings, styles, fetchVars,
                   storeVars, loginVars, panelVars, createVars, rosterVars,
                   refreshKey, authorizeRequests, profileVars, editingMember, selectedMember,
                   updateRequests>>

\* Edit Credentials: setEditingMember(m)
EditMember ==
    /\ PanelShown
    /\ members # Unmounted
    /\ editingMember = Null
    /\ \E m \in members.s : editingMember' = m /\ selectedMember' = m
    /\ UNCHANGED <<idleVars, dashboardVars, response, user, settings, styles, fetchVars,
                   storeVars, loginVars, panelVars, createVars, rosterVars,
                   refreshKey, authorizeRequests, profileVars, members,
                   membersPending, updateRequests>>

\* an input of the member form: setEditingMember({...editingMember, ...})
ChangeMember ==
    /\ PanelShown
    /\ editingMember # Null
    /\ \E e \in MemberEdits :
        editingMember' = [editingMember EXCEPT ![e[1]] = e[2]]
    /\ UNCHANGED <<idleVars, dashboardVars, response, user, settings, styles, fetchVars,
                   storeVars, loginVars, panelVars, createVars, rosterVars,
                   refreshKey, authorizeRequests, profileVars, members,
                   membersPending, selectedMember, updateRequests>>

\* the member Modal's onClose
CancelEdit ==
    /\ PanelShown
    /\ editingMember # Null
    /\ editingMember' = Null
    /\ selectedMember' = Null
    /\ UNCHANGED <<idleVars, dashboardVars, response, user, settings, styles, fetchVars,
                   storeVars, loginVars, panelVars, createVars, rosterVars,
                   refreshKey, authorizeRequests, profileVars, members,
                   membersPending, updateRequests>>

\* MemberManagement.handleUpdate up to its await
handleUpdate ==
    /\ PanelShown
    /\ editingMember # Null
    /\ Cardinality(updateRequests) < MaxInFlight
    /\ updateRequests' = updateRequests \cup
            {[userId |-> editingMember.id, data |-> editingMember,
              base |-> selectedMember, from |-> "member", live |-> TRUE]}
    /\ UNCHANGED <<idleVars, dashboardVars, response, user, settings, styles, fetchVars,
                   storeVars, loginVars, panelVars, createVars, rosterVars,
                   refreshKey, authorizeRequests, profileVars, memberVars>>

\* MemberManagement.handleUpdate after its await: on success the form is
\* closed and the members are fetched again
UpdateResolved ==
    \E r \in updateRequests, ok \in BOOLEAN :
        /\ r.from = "member"
        /\ ok => ~updateUserRefused(users, r.userId, r.data)
        /\ updateRequests' = updateRequests \ {r}
        /\ IF ok
           THEN /\ users' = updateUser(users, r.userId, r.data)
                /\ editingMember' = IF r.live THEN Null ELSE editingMember
                /\ selectedMember' = IF r.live THEN Null ELSE selectedMember
                /\ membersPending' = IF r.live THEN TRUE ELSE membersPending
           ELSE UNCHANGED <<users, editingMember, selectedMember,
                            membersPending>>
        /\ UNCHANGED <<idleVars, dashboardVars, response, user, settings, styles, fetchVars,
                       clubSettingsRow, ridesTable, rideIds, loginVars, panelVars,
                       createVars, rosterVars, refreshKey, authorizeRequests,
                       profileVars, members>>

\* the external ride-completion and roster-confirmation workflows: a stored
\* counter of a user is incremented
RideCompleted ==
    /\ \E u \in users, c \in StatCounters :
        /\ u[c].s < MaxIncrements
        /\ \A v \in users, d \in StatCounters :
            (v # u \/ d # c) => v[d].s = 0
        /\ users' = (users \ {u}) \cup {[u EXCEPT ![c] = Num(u[c].s + 1)]}
    /\ UNCHANGED <<idleVars, dashboardVars, response, user, settings, styles, fetchVars,
                   clubSettingsRow, ridesTable, rideIds, loginVars, panelVars,
                   createVars, rosterVars, refreshKey, authorizeRequests,
                   peopleVars>>

NextSession ==
    \/ SettingsLoaded
    \/ handleLogin
    \/ LoginResolved
    \/ EntrySequenceComplete
    \/ Logout
    \/ OpenSettings
    \/ CloseSettings
    \/ RequestAuthorize
    \/ CancelAuthorize
    \/ handleAuthorize
    \/ AuthorizeResolved
    \/ OpenCreateRide
    \/ CloseCreateRide
    \/ handleCreate
    \/ CreateResolved
    \/ SuccessTimeout

SpecSession == InitSession /\ [][NextSession]_vars

\* a Marshal has logged in while the settings fetch is still pending
InitAdmin ==
    /\ clubSettingsRow \in StoredRows
    /\ users = StoredUsers
    /\ ridesTable = <<FirstRide>>
    /\ rideIds = 1
    /\ settings = Null
    /\ styles = BrandingStyles(Null)
    /\ fetchCalls = 1
    /\ fetchPending = TRUE
    /\ response = NoResponse
    /\ user = MarshalUser
    /\ tempUser = MarshalUser
    /\ showEntrySequence = FALSE
    /\ loading = FALSE
    /\ error = ""
    /\ loginRequest = Null
    /\ showSettingsModal = FALSE
    /\ showCreateRideModal = FALSE
    /\ refreshKey = 0
    /\ localSettings = Unmounted
    /\ showConfirm = FALSE
    /\ authorizeRequests = {}
    /\ saving = FALSE
    /\ showSuccess = FALSE
    /\ createRequests = {}
    /\ createTimers = 0
    /\ selectedRide = Null
    /\ rosterRequests = {}
    /\ participants = <<>>
    /\ pendingAttendance = Null
    /\ showRiderControlModal = FALSE
    /\ formData = Unmounted
    /\ savingProfile = FALSE
    /\ members = Unmounted
    /\ membersPending = FALSE
    /\ editingMember = Null
    /\ updateRequests = {}
    /\ selectedMember = Null
    /\ rides = Unmounted
    /\ ridesPending = FALSE
    /\ deletingRide = Null
    /\ deleteRequests = {}
    /\ color = Undefined
    /\ sanitized = NotRun
    /\ resanitized = NotRun
    /\ fetched = NotFetched
    /\ view = NotRun

\* the Marshal's admin panel, next to another session that authorizes
NextAdmin ==
    \/ SettingsLoaded
    \/ OpenSettings
    \/ CloseSettings
    \/ updateField
    \/ RequestAuthorize
    \/ CancelAuthorize
    \/ handleAuthorize
    \/ AuthorizeResolved
    \/ OtherSessionAuthorize

SpecAdmin == InitAdmin /\ [][NextAdmin]_vars

\* a user has logged in and the settings have been loaded from an absent row
InitMembers ==
    /\ clubSettingsRow = [found |-> FALSE, data |-> NoRow]
    /\ users = StoredUsers
    /\ ridesTable = <<FirstRide>>
    /\ rideIds = 1
    /\ response = [error |-> FALSE, found |-> FALSE, data |-> NoRow]
    /\ settings = defaults
    /\ styles = BrandingStyles(defaults)
    /\ fetchCalls = 1
    /\ fetchPending = FALSE
    /\ user \in StoredUsers
    /\ tempUser = user
    /\ showEntrySequence = FALSE
    /\ loading = FALSE
    /\ error = ""
    /\ loginRequest = Null
    /\ showSettingsModal = FALSE
    /\ showCreateRideModal = FALSE
    /\ refreshKey = 0
    /\ localSettings = Unmounted
    /\ showConfirm = FALSE
    /\ authorizeRequests = {}
    /\ saving = FALSE
    /\ showSuccess = FALSE
    /\ createRequests = {}
    /\ createTimers = 0
    /\ selectedRide = Null
    /\ rosterRequests = {}
    /\ participants = <<>>
    /\ pendingAttendance = Null
    /\ showRiderControlModal = FALSE
    /\ formData = Unmounted
    /\ savingProfile = FALSE
    /\ members = Unmounted
    /\ membersPending = FALSE
    /\ editingMember = Null
    /\ updateRequests = {}
    /\ selectedMember = Null
    /\ rides = Unmounted
    /\ ridesPending = FALSE
    /\ deletingRide = Null
    /\ deleteRequests = {}
    /\ color = Undefined
    /\ sanitized = NotRun
    /\ resanitized = NotRun
    /\ fetched = NotFetched
    /\ view = NotRun

\* the profile form, next to the external workflows that increment the
\* counters
NextProfile ==
    \/ OpenProfile
    \/ CloseProfile
    \/ EditProfile
    \/ handleSave
    \/ SaveResolved
    \/ RideCompleted

SpecProfile == InitMembers /\ [][NextProfile]_vars

\* the Marshal's member management
NextMembers ==
    \/ OpenSettings
    \/ CloseSettings
    \/ OpenMembers
    \/ MembersLoaded
    \/ EditMember
    \/ ChangeMember
    \/ CancelEdit
    \/ handleUpdate
    \/ UpdateResolved

SpecMembers == InitMembers /\ [][NextMembers]_vars

\* logins and logouts of a session whose user edits the profile
NextEntry ==
    \/ SettingsLoaded
    \/ handleLogin
    \/ LoginResolved
    \/ EntrySequenceComplete
    \/ Logout
    \/ OpenProfile
    \/ CloseProfile
    \/ EditProfile
    \/ handleSave
    \/ SaveResolved

SpecEntry == InitSession /\ [][NextEntry]_vars

\* the timers of LoginSequence run out unless the sequence is unmounted
SpecEntryFair == SpecEntry /\ WF_vars(EntrySequenceComplete)

\* a Marshal on the dashboard, no ride stored yet
InitCreate ==
    /\ clubSettingsRow = [found |-> FALSE, data |-> NoRow]
    /\ users = StoredUsers
    /\ ridesTable = <<>>
    /\ rideIds = 0
    /\ response = [error |-> FALSE, found |-> FALSE, data |-> NoRow]
    /\ settings = defaults
    /\ styles = BrandingStyles(defaults)
    /\ fetchCalls = 1
    /\ fetchPending = FALSE
    /\ user = MarshalUser
    /\ tempUser = user
    /\ showEntrySequence = FALSE
    /\ loading = FALSE
    /\ error = ""
    /\ loginRequest = Null
    /\ showSettingsModal = FALSE
    /\ showCreateRideModal = FALSE
    /\ refreshKey = 0
    /\ localSettings = Unmounted
    /\ showConfirm = FALSE
    /\ authorizeRequests = {}
    /\ saving = FALSE
    /\ showSuccess = FALSE
    /\ createRequests = {}
    /\ createTimers = 0
    /\ selectedRide = Null
    /\ rosterRequests = {}
    /\ participants = <<>>
    /\ pendingAttendance = Null
    /\ showRiderControlModal = FALSE
    /\ formData = Unmounted
    /\ savingProfile = FALSE
    /\ members = Unmounted
    /\ membersPending = FALSE
    /\ editingMember = Null
    /\ updateRequests = {}
    /\ selectedMember = Null
    /\ rides = Unmounted
    /\ ridesPending = FALSE
    /\ deletingRide = Null
    /\ deleteRequests = {}
    /\ color = Undefined
    /\ sanitized = NotRun
    /\ resanitized = NotRun
    /\ fetched = NotFetched
    /\ view = NotRun

\* the create-ride form, and the session it is opened in
NextCreate ==
    \/ OpenCreateRide
    \/ CloseCreateRide
    \/ handleCreate
    \/ CreateResolved
    \/ SuccessTimeout
    \/ Logout
    \/ handleLogin
    \/ LoginResolved
    \/ EntrySequenceComplete

SpecCreate == InitCreate /\ [][NextCreate]_vars

\* a user on the dashboard, two rides stored
InitRoster ==
    /\ clubSettingsRow = [found |-> FALSE, data |-> NoRow]
    /\ users = StoredUsers
    /\ ridesTable = <<FirstRide, SecondRide>>
    /\ rideIds = 2
    /\ response = [error |-> FALSE, found |-> FALSE, data |-> NoRow]
    /\ settings = defaults
    /\ styles = BrandingStyles(defaults)
    /\ fetchCalls = 1
    /\ fetchPending = FALSE
    /\ user \in StoredUsers
    /\ tempUser = user
    /\ showEntrySequence = FALSE
    /\ loading = FALSE
    /\ error = ""
    /\ loginRequest = Null
    /\ showSettingsModal = FALSE
    /\ showCreateRideModal = FALSE
    /\ refreshKey = 0
    /\ localSettings = Unmounted
    /\ showConfirm = FALSE
    /\ authorizeRequests = {}
    /\ saving = FALSE
    /\ showSuccess = FALSE
    /\ createRequests = {}
    /\ createTimers = 0
    /\ selectedRide = Null
    /\ rosterRequests = {}
    /\ participants = <<>>
    /\ pendingAttendance = Null
    /\ showRiderControlModal = FALSE
    /\ formData = Unmounted
    /\ savingProfile = FALSE
    /\ members = Unmounted
    /\ membersPending = FALSE
    /\ editingMember = Null
    /\ updateRequests = {}
    /\ selectedMember = Null
    /\ rides = Unmounted
    /\ ridesPending = FALSE
    /\ deletingRide = Null
    /\ deleteRequests = {}
    /\ color = Undefined
    /\ sanitized = NotRun
    /\ resanitized = NotRun
    /\ fetched = NotFetched
    /\ view = NotRun

\* the ride briefings of the dashboards
NextRoster ==
    \/ SelectRide
    \/ RosterLoaded
    \/ toggleAttendance
    \/ handleConfirmAttendance
    \/ CancelAttendance
    \/ CloseRide

SpecRoster == InitRoster /\ [][NextRoster]_vars

\* MarshalDashboard is rendered for a Marshal
MarshalDashboardShown == DashboardShown /\ user.clubRole = Marshal

\* the .then(setRides) and .finally of fetchRides; a failed getRides leaves
\* the list as it is
RidesLoaded ==
    /\ MarshalDashboardShown
    /\ ridesPending
    /\ ridesPending' = FALSE
    /\ \E ok \in BOOLEAN :
        rides' = IF ok THEN Listed(getRides(ridesTable)) ELSE rides
    /\ UNCHANGED <<idleVars, peopleVars, response, user, settings, styles,
                   fetchVars, storeVars, loginVars, panelVars, createVars,
                   rosterVars, refreshKey, authorizeRequests, deletingRide,
                   deleteRequests>>

\* the Sync Manifest button: fetchRides
SyncManifest ==
    /\ MarshalDashboardShown
    /\ ridesPending' = TRUE
    /\ UNCHANGED <<idleVars, peopleVars, response, user, settings, styles,
                   fetchVars, storeVars, loginVars, panelVars, createVars,
                   rosterVars, refreshKey, authorizeRequests, rides,
                   deletingRide, deleteRequests>>

\* the Scrub Expedition button of a displayed ride card
RequestDelete ==
    /\ MarshalDashboardShown
    /\ \E i \in 1..Len(rides.s) : deletingRide' = rides.s[i]
    /\ UNCHANGED <<idleVars, peopleVars, response, user, settings, styles,
                   fetchVars, storeVars, loginVars, panelVars, createVars,
                   rosterVars, refreshKey, authorizeRequests, rides,
                   ridesPending, deleteRequests>>

\* the ConfirmationModal's onCancel
CancelDelete ==
    /\ MarshalDashboardShown
    /\ deletingRide # Null
    /\ deletingRide' = Null
    /\ UNCHANGED <<idleVars, peopleVars, response, user, settings, styles,
                   fetchVars, storeVars, loginVars, panelVars, createVars,
                   rosterVars, refreshKey, authorizeRequests, rides,
                   ridesPending, deleteRequests>>

\* handleDeleteRide up to its await, from the ConfirmationModal's onConfirm
handleDeleteRide ==
    /\ MarshalDashboardShown
    /\ deletingRide # Null
    /\ deleteRequests' = deleteRequests \cup
            {[id |-> deletingRide.id, live |-> TRUE, state |-> "sent"]}
    /\ UNCHANGED <<idleVars, peopleVars, response, user, settings, styles,
                   fetchVars, storeVars, loginVars, panelVars, createVars,
                   rosterVars, refreshKey, authorizeRequests, rides,
                   ridesPending, deletingRide>>

\* api.deleteRide at the table: the rows are deleted, or an error is returned
DeleteHandled ==
    \E r \in deleteRequests, ok \in BOOLEAN :
        /\ r.state = "sent"
        /\ ridesTable' = IF ok THEN deleteRide(ridesTable, r.id) ELSE ridesTable
        /\ deleteRequests' = (deleteRequests \ {r}) \cup
                {[r EXCEPT !.state = IF ok THEN "ok" ELSE "failed"]}
        /\ UNCHANGED <<idleVars, peopleVars, response, user, settings, styles,
                       fetchVars, clubSettingsRow, users, rideIds, loginVars,
                       panelVars, createVars, rosterVars, refreshKey,
                       authorizeRequests, rides, ridesPending, deletingRide>>

\* handleDeleteRide after its await: setDeletingRide(null) and fetchRides on
\* success, the alert on failure
DeleteResolved ==
    \E r \in deleteRequests :
        /\ r.state # "sent"
        /\ deleteRequests' = deleteRequests \ {r}
        /\ IF r.live /\ r.state = "ok"
           THEN /\ deletingRide' = Null
                /\ ridesPending' = TRUE
           ELSE UNCHANGED <<deletingRide, ridesPending>>
        /\ UNCHANGED <<idleVars, peopleVars, response, user, settings, styles,
                       fetchVars, storeVars, loginVars, panelVars, createVars,
                       rosterVars, refreshKey, authorizeRequests, rides>>

\* a Marshal on the dashboard after its mount effect, two rides stored
InitDashboard ==
    /\ clubSettingsRow = [found |-> FALSE, data |-> NoRow]
    /\ users = StoredUsers
    /\ ridesTable = <<FirstRide, SecondRide>>
    /\ rideIds = 2
    /\ response = [error |-> FALSE, found |-> FALSE, data |-> NoRow]
    /\ settings = defaults
    /\ styles = BrandingStyles(defaults)
    /\ fetchCalls = 1
    /\ fetchPending = FALSE
    /\ user = MarshalUser
    /\ tempUser = user
    /\ showEntrySequence = FALSE
    /\ loading = FALSE
    /\ error = ""
    /\ loginRequest = Null
    /\ showSettingsModal = FALSE
    /\ showCreateRideModal = FALSE
    /\ refreshKey = 0
    /\ localSettings = Unmounted
    /\ showConfirm = FALSE
    /\ authorizeRequests = {}
    /\ saving = FALSE
    /\ showSuccess = FALSE
    /\ createRequests = {}
    /\ createTimers = 0
    /\ selectedRide = Null
    /\ rosterRequests = {}
    /\ participants = <<>>
    /\ pendingAttendance = Null
    /\ showRiderControlModal = FALSE
    /\ formData = Unmounted
    /\ savingProfile = FALSE
    /\ members = Unmounted
    /\ membersPending = FALSE
    /\ editingMember = Null
    /\ updateRequests = {}
    /\ selectedMember = Null
    /\ rides = Listed(<<>>)
    /\ ridesPending = TRUE
    /\ deletingRide = Null
    /\ deleteRequests = {}
    /\ color = Undefined
    /\ sanitized = NotRun
    /\ resanitized = NotRun
    /\ fetched = NotFetched
    /\ view = NotRun

\* the ride list of the Marshal's dashboard
NextDashboard ==
    \/ RidesLoaded
    \/ SyncManifest
    \/ RequestDelete
    \/ CancelDelete
    \/ handleDeleteRide
    \/ DeleteHandled
    \/ DeleteResolved
    \/ Logout

SpecDashboard == InitDashboard /\ [][NextDashboard]_vars

----------------------------------------------------------------------------
(* Properties of the sanitizer *)

\* the retired colour as the specification lists it: a case-insensitive
\* match of one of the five textual forms
IsRetiredForm(s) ==
    LET c == toLowerCase(s) IN
    \/ c = LEGACY_RED_HEX
    \/ c = LegacyRgb
    \/ includes(c, LegacyTriple)
    \/ c = PureRedHex
    \/ c = RedName

\* C6: sanitize is idempotent: applying it to its own result gives that
\* result again, for undefined, null, empty, retired and all other inputs.
SanitizeIdempotent ==
    resanitized # NotRun => resanitized = sanitized

\* the sanitizer replaced its input and was then applied to the replacement
SanitizeIdempotentWitness ==
    /\ resanitized # NotRun
    /\ color.t = "string"
    /\ Len(color.s) > 0
    /\ sanitized # color

\* C7: undefined, empty and every case-insensitive form of the retired
\* colour are mapped to the default brand colour.
SanitizeRetiredToDefault ==
    (sanitized # NotRun /\ (~Truthy(color) \/ IsRetiredForm(color.s)))
        => sanitized = Str(BRAND_GREEN)

\* an upper-case retired form has been sanitized
SanitizeRetiredWitness ==
    /\ sanitized = Str(BRAND_GREEN)
    /\ color.t = "string"
    /\ IsRetiredForm(color.s)
    /\ color.s # toLowerCase(color.s)

\* C8 as stated: every non-empty input that is not a case-insensitive
\* retired form is returned character for character.
SanitizePassThroughAsStated ==
    (sanitized # NotRun /\ Truthy(color) /\ ~IsRetiredForm(color.s))
        => sanitized = color

\* C8 amended: every non-empty input that is not a retired form after its
\* surrounding white space is removed is returned character for character.
SanitizePassThrough ==
    (sanitized # NotRun /\ Truthy(color) /\ ~IsRetiredForm(trim(color.s)))
        => sanitized = color

\* an input with surrounding white space or capitals came back untouched
SanitizePassThroughWitness ==
    /\ sanitized = color
    /\ color.t = "string"
    /\ color.s # trim(color.s)
    /\ color.s # toLowerCase(color.s)
    /\ Len(trim(color.s)) > 0

----------------------------------------------------------------------------
(* Properties of the settings fetch *)

\* the text is one the sanitizer recognises as the retired colour
Recognised(v) == v.t = "string" /\ IsRetiredForm(trim(v.s))

FetchedFromRow == fetched # NotFetched /\ response.found /\ ~response.error

\* C9 as stated: no colour field of a fetched record is the retired colour
\* in a recognised form.
NoRetiredColourInAnyField ==
    fetched # NotFetched => \A f \in ColorFields : ~Recognised(fetched[f])

\* C9 amended: primaryColor, buttonBg and statColor of a fetched record are
\* never the retired colour in a recognised form.
NoRetiredColourInSanitizedFields ==
    fetched # NotFetched => \A f \in SanitizedFields : ~Recognised(fetched[f])

\* a row holding the retired colour in a sanitized field has been fetched
NoRetiredColourWitness ==
    /\ FetchedFromRow
    /\ \E f \in SanitizedFields : Recognised(response.data[f])

\* the effect of the sanitizer on a stored value, stated on its own
SanitizedAs(storedValue, out) ==
    IF ~Truthy(storedValue) \/ Recognised(storedValue)
    THEN out = Str(BRAND_GREEN)
    ELSE out = storedValue

\* C10 as stated: exactly primaryColor, buttonBg and statColor are
\* sanitized; every other colour field holding a string in the stored row
\* is returned unchanged.
OnlyThreeSanitizedAsStated ==
    FetchedFromRow =>
        /\ \A f \in SanitizedFields : SanitizedAs(response.data[f], fetched[f])
        /\ \A f \in ColorFields \ SanitizedFields :
               response.data[f].t = "string" => fetched[f] = response.data[f]

\* C10 amended: exactly primaryColor, buttonBg and statColor are sanitized;
\* every other colour field holding a non-empty string is returned
\* unchanged, headerText, cardBorder and buttonText are returned as stored
\* in every case, and an empty or missing dashboardBg, cardBg or headerBg
\* is replaced by its default.
OnlyThreeSanitized ==
    FetchedFromRow =>
        /\ \A f \in SanitizedFields : SanitizedAs(response.data[f], fetched[f])
        /\ \A f \in ColorFields \ SanitizedFields :
               Truthy(response.data[f]) => fetched[f] = response.data[f]
        /\ \A f \in SpreadColorFields : fetched[f] = response.data[f]
        /\ \A f \in DefaultedColorFields :
               ~Truthy(response.data[f]) => fetched[f] = defaults[f]

\* a row with the retired colour in a sanitized and in an unsanitized field
\* has been fetched, and the unsanitized one came back as stored
OnlyThreeSanitizedWitness ==
    /\ FetchedFromRow
    /\ \E f \in SanitizedFields :
           Recognised(response.data[f]) /\ fetched[f] = Str(BRAND_GREEN)
    /\ \E g \in ColorFields \ SanitizedFields :
           Recognised(response.data[g]) /\ fetched[g] = response.data[g]

----------------------------------------------------------------------------
(* Properties of the achievement progress *)

\* the achievement catalogue the component was given
Catalogue == IF settings = Null THEN <<>> ELSE settings.achievements.s

StatFieldOf == [Kms |-> "totalKms", Leads |-> "leads", Sweeps |-> "sweeps",
                RPs |-> "rps", Rides |-> "totalRides"]

\* the counter of the user for the i-th category
StatOf(i) == user[StatFieldOf[categories[i]]]

\* the thresholds the catalogue holds for the i-th category
ThresholdsOf(i) ==
    { Catalogue[j].threshold :
        j \in { k \in 1..Len(Catalogue) : Catalogue[k].category = categories[i] } }

Emitted(i) == view.t = "element" /\ view.s[i] # Null

CardAt(i) == view.s[i].s

CategoryIndexes == 1..Len(categories)

\* C1: for a non-negative integer stat the fraction shown for every emitted
\* category is a number between 0 and 100.
WidthInRange ==
    \A i \in CategoryIndexes :
        (Emitted(i) /\ StatOf(i).t = "number" /\ StatOf(i).s >= 0) =>
            LET w == CardAt(i).width IN
            w.k = "fin" /\ 0 <= w.n /\ w.n <= 100 * w.d

\* a card shows a fraction strictly between 0 and 100
WidthInRangeWitness ==
    \E i \in CategoryIndexes :
        /\ Emitted(i)
        /\ StatOf(i).t = "number"
        /\ CardAt(i).width.k = "fin"
        /\ 0 < CardAt(i).width.n
        /\ CardAt(i).width.n < 100 * CardAt(i).width.d

\* C2: a stat at or above the highest threshold of a non-empty category
\* gives isMaxed and a shown fraction of exactly 100.
MaxedAtHighestThreshold ==
    \A i \in CategoryIndexes :
        (/\ Emitted(i)
         /\ StatOf(i).t = "number"
         /\ \A th \in ThresholdsOf(i) : StatOf(i).s >= th) =>
            CardAt(i).isMaxed /\ CardAt(i).width = Fin(100)

\* a maxed card whose raw formula does not yield 100
MaxedAtHighestThresholdWitness ==
    \E i \in CategoryIndexes :
        /\ Emitted(i)
        /\ StatOf(i).t = "number"
        /\ \A th \in ThresholdsOf(i) : StatOf(i).s >= th
        /\ CardAt(i).progress # Fin(100)
        /\ CardAt(i).width = Fin(100)

\* C3: when next.threshold - prevThreshold is zero the card is maxed and
\* shows 100, never the result of 0/0.
ZeroDivisorIsMaxed ==
    \A i \in CategoryIndexes :
        (Emitted(i) /\
         CardAt(i).nextAchievement.threshold - CardAt(i).prevThreshold = 0) =>
            CardAt(i).isMaxed /\ CardAt(i).width = Fin(100)

\* two achievements of one category share a threshold, the stat equals it,
\* and the raw division was 0/0
ZeroDivisorIsMaxedWitness ==
    \E i \in CategoryIndexes :
        /\ Emitted(i)
        /\ CardAt(i).nextAchievement.threshold - CardAt(i).prevThreshold = 0
        /\ CardAt(i).progress = NaN
        /\ StatOf(i).t = "number"
        /\ ThresholdsOf(i) = {StatOf(i).s}
        /\ \E j, k \in 1..Len(Catalogue) :
               /\ j # k
               /\ Catalogue[j].category = categories[i]
               /\ Catalogue[k].category = categories[i]

\* C4: a category has a card exactly when the catalogue holds an
\* achievement of that category, and the card is that category's.
EmittedIffCatalogued ==
    view # NotRun =>
        \A i \in CategoryIndexes :
            /\ Emitted(i) <=> ThresholdsOf(i) # {}
            /\ Emitted(i) => CardAt(i).category = categories[i]

\* a render of a non-empty catalogue that left a category out
EmittedIffCataloguedWitness ==
    /\ view.t = "element"
    /\ \E i \in CategoryIndexes : Emitted(i)
    /\ \E i \in CategoryIndexes : ~Emitted(i)

\* C5: a stat the user record holds no value for gives the same next
\* milestone, prevThreshold, isMaxed and fraction as the value 0.
MissingStatAsZero ==
    \A i \in CategoryIndexes :
        (Emitted(i) /\ StatOf(i) = Null) =>
            LET zeroed == [user EXCEPT ![StatFieldOf[categories[i]]] = Num(0)]
                atZero == CategoryCard(zeroed, Catalogue, categories[i]).s
            IN /\ CardAt(i).nextAchievement = atZero.nextAchievement
               /\ CardAt(i).prevThreshold = atZero.prevThreshold
               /\ CardAt(i).isMaxed = atZero.isMaxed
               /\ CardAt(i).progress = atZero.progress
               /\ CardAt(i).width = atZero.width

\* a card was computed for a missing stat in a category with two thresholds
MissingStatAsZeroWitness ==
    \E i \in CategoryIndexes :
        /\ Emitted(i)
        /\ StatOf(i) = Null
        /\ Cardinality(ThresholdsOf(i)) >= 2

----------------------------------------------------------------------------
(* Properties of the milestones of a category *)

\* the stat of the i-th category as the comparisons read it
CurrentOf(i) == IF StatOf(i).t = "number" THEN StatOf(i).s ELSE 0

\* the places of the catalogue that hold the i-th category
IndexesOf(i) ==
    { k \in 1..Len(Catalogue) : Catalogue[k].category = categories[i] }

Lowest(S) == CHOOSE j \in S : \A k \in S : j <= k

Highest(S) == CHOOSE j \in S : \A k \in S : j >= k

\* C21: next is the first achievement in ascending threshold order whose
\* threshold is greater than the stat; when no threshold is greater it is
\* the last achievement of the sorted list.
NextIsFirstBeyond ==
    \A i \in CategoryIndexes :
        Emitted(i) =>
            LET beyond == { j \in IndexesOf(i) :
                              Catalogue[j].threshold > CurrentOf(i) }
                nearest == { j \in beyond : \A k \in beyond :
                              Catalogue[j].threshold <= Catalogue[k].threshold }
                top == { j \in IndexesOf(i) : \A k \in IndexesOf(i) :
                              Catalogue[j].threshold >= Catalogue[k].threshold }
            IN IF beyond # {}
               THEN CardAt(i).nextAchievement = Catalogue[Lowest(nearest)]
               ELSE CardAt(i).nextAchievement = Catalogue[Highest(top)]

\* two milestones of one category lie beyond the stat, the catalogue lists
\* the farther one first, and the nearer one is next
NextIsFirstBeyondWitness ==
    \E i \in CategoryIndexes :
        /\ Emitted(i)
        /\ StatOf(i).t = "number"
        /\ IndexesOf(i) = {1, 2}
        /\ Catalogue[1].threshold > Catalogue[2].threshold
        /\ Catalogue[2].threshold > CurrentOf(i)
        /\ CardAt(i).nextAchievement = Catalogue[2]

\* C22: prevThreshold is the largest threshold of the category that is not
\* above the stat, 0 when there is none, and so never above a stat >= 0.
PrevIsLargestReached ==
    \A i \in CategoryIndexes :
        Emitted(i) =>
            LET reached == { th \in ThresholdsOf(i) : th <= CurrentOf(i) }
            IN /\ CardAt(i).prevThreshold =
                      (IF reached = {} THEN 0 ELSE Highest(reached))
               /\ CurrentOf(i) >= 0 => CardAt(i).prevThreshold <= CurrentOf(i)

\* the stat has passed two different thresholds and the larger one is taken
PrevIsLargestReachedWitness ==
    \E i \in CategoryIndexes :
        /\ Emitted(i)
        /\ StatOf(i).t = "number"
        /\ Cardinality({ th \in ThresholdsOf(i) : th <= StatOf(i).s }) = 2
        /\ CardAt(i).prevThreshold = Highest(ThresholdsOf(i))
        /\ CardAt(i).prevThreshold > 0

\* the place in the catalogue of the achievement with this label
PlaceOf(label) == CHOOSE k \in 1..Len(Catalogue) : Catalogue[k].label = label

\* the list of the i-th card holds the achievements of its category, each
\* once, by ascending threshold, equal thresholds in catalogue order
OrderedStable(i) ==
    LET list == CardAt(i).catAchievements IN
    /\ Len(list) = Cardinality(IndexesOf(i))
    /\ \A a \in 1..Len(list) :
           PlaceOf(list[a].label) \in IndexesOf(i) /\
           list[a] = Catalogue[PlaceOf(list[a].label)]
    /\ \A a, b \in 1..Len(list) :
           a < b =>
               \/ list[a].threshold < list[b].threshold
               \/ /\ list[a].threshold = list[b].threshold
                  /\ PlaceOf(list[a].label) < PlaceOf(list[b].label)

----------------------------------------------------------------------------
(* Properties of the theme projector *)

\* the fixed fallback the specification names for a projected field
FixedFallback(field) ==
    CASE field \in {"primaryColor", "buttonBg", "statColor"} -> BRAND_GREEN
      [] field \in {"globalFont", "inputFont"} -> Montserrat
      [] field \in FontFields -> BebasNeue
      [] field \in {"dashboardBg", "headerBg", "buttonText"} -> Black
      [] field = "headerText" -> White
      [] field = "cardBg" -> CardBgDefault
      [] OTHER -> ProjectorCardBorder

\* C12: for a non-null model every style variable emitted has a non-empty
\* value: the model's value when the field is present and non-empty,
\* otherwise the fixed fallback (brand green for the primary, button
\* background and stat colours, Montserrat for the global and input fonts,
\* Bebas Neue for the other seven fonts).
EveryVariableHasValue ==
    (styles # NotRun /\ settings # Null) =>
        /\ Len(styles.vars) = Len(StyleRules)
        /\ \A i \in 1..Len(StyleRules) :
            LET rule == StyleRules[i]
                want == IF Truthy(settings[rule.field])
                        THEN settings[rule.field].s
                        ELSE FixedFallback(rule.field)
            IN /\ styles.vars[i].name = rule.name
               /\ want # <<>>
               /\ styles.vars[i].value =
                    IF rule.font THEN FontStack(want) ELSE want

EveryVariableHasValueWitness ==
    /\ styles # NotRun
    /\ settings # Null
    /\ settings["globalFont"] = Str(<<>>)
    /\ settings["headerText"] = Null
    /\ styles.vars[7].value = FontStack(Montserrat)
    /\ styles.vars[4].value = White
    /\ styles.vars[1].value = BRAND_GREEN

----------------------------------------------------------------------------
(* Properties of the App session *)

\* C11: while the session's settings are null (not yet loaded) BrandingStyles
\* emits no style variable and no font reference; nothing is emitted before
\* the first load completes.
NothingEmittedBeforeLoad ==
    /\ settings = Null => styles = Null
    /\ fetchPending => settings = Null /\ styles = Null

NothingEmittedBeforeLoadWitness ==
    /\ fetchPending
    /\ settings = Null
    /\ styles = Null
    /\ user = MarshalUser

\* C13: when the club_settings read returns an error or no row,
\* getClubSettings completes with the full default record, so once the
\* initial fetch has completed the session's settings are not null.
DefaultsWhenUnavailable ==
    ~fetchPending =>
        /\ settings # Null
        /\ DOMAIN settings = SettingsFields
        /\ (response.error \/ ~response.found) => settings = defaults

DefaultsWhenUnavailableWitness ==
    /\ ~fetchPending
    /\ response.error
    /\ clubSettingsRow.found
    /\ settings = defaults
    /\ styles # Null

\* the login in flight is resolved in this step
LoginResolves == loginRequest # Null /\ loginRequest' = Null

\* the stored users matching the credentials of the login in flight
Matching ==
    { u \in users : u.id = loginRequest.id /\ u.password = loginRequest.password }

FailureMessages == {InvalidCredentials, LookupFailed}

PrivilegedOnlyForMarshal ==
    (CreateShown \/ PanelShown \/ pendingAttendance # Null) =>
        (user # Null /\ user.clubRole = Marshal)

\* C20: the club settings fetch is issued exactly once per application
\* session, at application start, and never again on login, logout,
\* dashboard refresh, opening the admin panel or a successful authorize.
FetchedOncePerSession == fetchCalls = 1

FetchedOncePerSessionWitness ==
    /\ fetchCalls = 1
    /\ ~fetchPending
    /\ ~response.error
    /\ ~response.found
    /\ clubSettingsRow.found
    /\ refreshKey = 1
    /\ user = RiderUser

----------------------------------------------------------------------------
(* Properties of the admin panel *)

\* the draft is edited in this step
DraftEdited ==
    /\ localSettings \notin {Unmounted, Null}
    /\ localSettings' \notin {Unmounted, Null}
    /\ localSettings' # localSettings

\* C15 as stated: no optimistic update is applied: an edit of the form's
\* draft changes neither the session settings nor the session user; they
\* change only once the write has succeeded.
NoOptimisticUpdate ==
    [][DraftEdited => (settings' = settings /\ user' = user)]_vars

\* the write of request r is applied in this step: the request leaves the
\* flight and its confirmation dialog is closed
AuthorizeApplied(r) ==
    /\ r \in authorizeRequests
    /\ authorizeRequests' = authorizeRequests \ {r}
    /\ r.live
    /\ showConfirm
    /\ ~showConfirm'

\* C17 as stated: after an authorize is applied, the stored club settings
\* record equals the complete draft of that authorize; no field value of an
\* earlier write survives by merging.
StoredRecordIsLastDraft ==
    [][\A r \in authorizeRequests :
        AuthorizeApplied(r) =>
            /\ r.draft # Null
            /\ clubSettingsRow' = [found |-> TRUE, data |-> r.draft]]_vars

\* the stored row is updated in this step in its achievements and in another
\* field
BothPartsWritten ==
    /\ clubSettingsRow.found
    /\ clubSettingsRow'.data["achievements"] # clubSettingsRow.data["achievements"]
    /\ \E f \in SettingsFields \ {"achievements"} :
        clubSettingsRow'.data[f] # clubSettingsRow.data[f]

\* C18 as stated: a save that covers the settings fields and the achievement
\* catalogue is two independent writes: no single write applies both.
SaveIsTwoWrites ==
    [][~BothPartsWritten]_vars

\* C18 (amended): a save that covers the settings fields and the achievement
\* catalogue is one updateClubSettings call carrying the whole draft: when
\* it is applied every field of the stored row, the catalogue included,
\* takes the draft's value in the same step, and when it fails, or the draft
\* is null, no field changes; the row never holds one part of a save
\* without the other.
SaveIsOneWrite ==
    [][\A r \in authorizeRequests :
        authorizeRequests' = authorizeRequests \ {r} =>
            \/ /\ r.draft # Null
               /\ \A f \in SettingsFields : clubSettingsRow'.data[f] = r.draft[f]
            \/ clubSettingsRow'.data = clubSettingsRow.data]_vars

SaveIsOneWriteWitness ==
    /\ clubSettingsRow.found
    /\ clubSettingsRow.data = localSettings
    /\ clubSettingsRow.data["achievements"] = Arr(<<>>)
    /\ clubSettingsRow.data["globalFont"] = Str(<<>>)
    /\ authorizeRequests = {}
    /\ ~showConfirm

----------------------------------------------------------------------------
(* Properties of the stored users *)

\* C16 as stated: for every user and every stat counter the stored value
\* never decreases, and no operation of this client changes a stored
\* counter: the counters change only by the external increments.
CountersNeverDecrease ==
    [][\A u \in users : \A v \in users' :
        v.id = u.id => \A c \in StatCounters : v[c].s >= u[c].s]_vars

----------------------------------------------------------------------------
(* Properties of the member registry *)

\* C24: a member update writes to the stored record of the member that was
\* selected for editing and to no other record, also when the registry ID
\* was changed in the form: every row a resolved update changes is the row
\* of the selected member.
MemberUpdateWritesSelectedOnly ==
    [][\A u \in users :
          u \notin users' =>
              \E r \in updateRequests \ updateRequests' :
                  r.from = "member" /\ u.id = r.base.id]_vars

----------------------------------------------------------------------------
(* Properties of the draft an authorize sends *)

\* C25: whenever updateClubSettings has been called from the admin panel,
\* the draft it was called with is a non-null ClubSettings record, also when
\* the panel was opened before the settings fetch resolved.
AuthorizeSendsLoadedDraft ==
    \A r \in authorizeRequests : r.draft # Null

----------------------------------------------------------------------------
(* Properties of the entry sequence *)

\* C26: the session user changes from null to a user record only when the
\* entry sequence started by a successful login completes, and is then the
\* record that login returned.
UserSetOnlyByEntrySequence ==
    [][(user = Null /\ user' # Null) =>
          /\ showEntrySequence
          /\ ~showEntrySequence'
          /\ tempUser # Null
          /\ user' = tempUser]_vars

\* after a successful login the sequence completes and the dashboard is
\* reached
EntrySequenceCompletes ==
    (showEntrySequence /\ tempUser # Null) ~> DashboardShown

----------------------------------------------------------------------------
(* Properties of the fallbacks of the projector against the defaults *)

\* C27: a field the stored record does not hold projects to the value it
\* projects to when the record is absent and the defaults are returned: the
\* projector's fallback for the field equals the access layer's default.
AbsentFieldProjectsAsDefault ==
    (fetched # NotFetched /\ response.found) =>
        \A i \in 1..Len(StyleRules) :
            response.data[StyleRules[i].field] \in {Undefined, Null} =>
                StyleValue(fetched, StyleRules[i])
                    = StyleValue(getClubSettings(
                          [error |-> FALSE, found |-> FALSE, data |-> NoRow]),
                        StyleRules[i])

----------------------------------------------------------------------------
(* Properties of the ride roster *)

\* the roster is p with the attended flag of the participant u turned round
\* and nothing else changed
Flipped(before, after, u) ==
    /\ Len(after) = Len(before)
    /\ \E i \in 1..Len(before) : before[i].userId = u
    /\ \A i \in 1..Len(before) :
        after[i] = IF before[i].userId = u
                   THEN [before[i] EXCEPT !.attended = ~before[i].attended]
                   ELSE before[i]

\* C29: an attendance toggle by a non-Marshal changes nothing; for a Marshal
\* it only records a pending change; confirming the pending change flips the
\* attended flag of exactly the participant with that userId and leaves
\* every other participant unchanged; cancelling leaves the roster
\* unchanged.
AttendanceChangesOnlyOnConfirm ==
    [][/\ user.clubRole # Marshal =>
            (pendingAttendance' = Null /\
             (participants' # participants =>
                 rosterRequests' # rosterRequests \/ selectedRide' = Null))
       /\ (pendingAttendance' # pendingAttendance /\ pendingAttendance' # Null)
            => participants' = participants
       /\ (pendingAttendance # Null /\ pendingAttendance' = Null
            /\ selectedRide' = selectedRide /\ participants' # participants)
            => Flipped(participants, participants', pendingAttendance.userId)
      ]_vars

----------------------------------------------------------------------------
(* Properties of the create-ride form *)

\* the createRide calls started in this step
Started == { r \in createRequests' : r.live /\ r \notin createRequests }

\* C28: no createRide request is sent with an empty title or summary, and
\* none is started while another is in flight; each successful request adds
\* exactly one ride, with status 'upcoming'; each refresh of the parent list
\* and closing of the modal by the form belongs to one successful request.
CreateOneAtATime ==
    [][/\ \A r \in Started :
            /\ r.ride.title # <<>>
            /\ r.ride.summary # <<>>
            /\ createRequests = {}
       /\ ridesTable' # ridesTable =>
            /\ Len(ridesTable') = Len(ridesTable) + 1
            /\ SubSeq(ridesTable', 1, Len(ridesTable)) = ridesTable
            /\ ridesTable'[Len(ridesTable')].status = "upcoming"
            /\ \E r \in createRequests :
                /\ createRequests' = createRequests \ {r}
                /\ ridesTable'[Len(ridesTable')].title = r.ride.title
                /\ ridesTable'[Len(ridesTable')].summary = r.ride.summary
       /\ refreshKey' # refreshKey =>
            /\ refreshKey' = refreshKey + 1
            /\ createTimers' = createTimers - 1
            /\ ~showCreateRideModal'
      ]_vars

----------------------------------------------------------------------------
(* Properties of the deletion of a ride *)

\* the deleteRide calls started in this step
DeleteStarted == { r \in deleteRequests' \ deleteRequests : r.state = "sent" /\ r.live }

\* the deleteRide call whose continuation runs in this step, in a mounted
\* dashboard
DeleteContinued(r) ==
    /\ r \in deleteRequests
    /\ r.state # "sent"
    /\ deleteRequests' = deleteRequests \ {r}
    /\ user' = user

\* C30: deleteRide is called only with the id of the ride pending deletion,
\* which the marshal chose from the displayed list; the table loses rows
\* only to such a call, and only the rows of its id; when a call succeeds
\* the pending selection is cleared and the list is fetched again; when a
\* call fails, or the marshal cancels, the displayed list and the table stay
\* as they are.
DeleteOnlyConfirmed ==
    [][/\ \A r \in DeleteStarted :
            /\ deletingRide # Null
            /\ r.id = deletingRide.id
       /\ deletingRide' \notin {Null, deletingRide} =>
            \E i \in 1..Len(rides.s) : deletingRide' = rides.s[i]
       /\ ridesTable' # ridesTable =>
            \E r \in deleteRequests :
                /\ r.state = "sent"
                /\ ridesTable' = deleteRide(ridesTable, r.id)
                /\ \A i \in 1..Len(ridesTable') :
                        \E j \in 1..Len(ridesTable) :
                            ridesTable'[i] = ridesTable[j] /\ ridesTable[j].id # r.id
       /\ \A r \in deleteRequests :
            DeleteContinued(r) /\ r.live /\ r.state = "ok" =>
                deletingRide' = Null /\ ridesPending' /\ rides' = rides
       /\ \A r \in deleteRequests :
            DeleteContinued(r) /\ r.state = "failed" =>
                /\ rides' = rides
                /\ ridesTable' = ridesTable
                /\ deletingRide' = deletingRide
                /\ ridesPending' = ridesPending
       /\ (deletingRide # Null /\ deletingRide' = Null
            /\ deleteRequests' = deleteRequests /\ user' = user) =>
                rides' = rides /\ ridesTable' = ridesTable
      ]_vars

\* a confirmed deletion has removed its ride and the list was fetched again
DeleteOnlyConfirmedWitness ==
    /\ Len(ridesTable) = 1
    /\ rides = Listed(getRides(ridesTable))
    /\ deletingRide = Null
    /\ deleteRequests = {}
    /\ ~ridesPending

====
